---------------------------- MODULE Spec2Model ----------------------------
(***************************************************************************)
(* A model of tooler (morgaesis/tooler): the platform-to-asset matcher of  *)
(* src/platform.rs and the registry / install / pin machinery of           *)
(* src/install.rs and src/tool_id.rs.                                      *)
(*                                                                         *)
(* Strings are kept as strings: asset names, registry keys and paths are   *)
(* built and tested with the same substring / suffix / prefix tests the    *)
(* Rust code applies to them.                                              *)
(***************************************************************************)
EXTENDS Integers, Sequences, FiniteSets, TLC

VARIABLES
    \* ---- the host, and the asset matcher's inputs and result (platform.rs)
    raw_os,        \* std::env::consts::OS of the host
    raw_arch,      \* std::env::consts::ARCH of the host
    is_musl,       \* what is_musl_system() reports on the host
    assets,        \* a release's asset names, in published order
    selected,      \* Ok(Option<AssetInfo>) returned by find_asset_for_platform
    spc,           \* "input" while the asset list is built, "done" after select
    \* ---- the registry, the tool storage tree and a running install
    config,        \* config.tools of the running command (key -> ToolInfo)
    config_file,   \* the tools map of the persisted registry file
    fs,            \* the versioned directories on disk: path -> files in it
    staging,       \* the staging TempDir of a running install: its files
    pc,            \* where install_or_update_tool stands ("idle": not running)
    inv,           \* the locals of the running install_or_update_tool
    clock,         \* Utc::now(), counted in commands that stamp a record
    published,     \* how many releases the repository has published so far
    last_cmd,      \* the most recent command and how it ended
    pin_note,      \* the record the user last pinned, until a later
                   \* install, update or remove
    \* ---- a running `tooler run` (main.rs)
    run,           \* the run command waiting for its install to return
    settings,      \* config.settings of the running command
    \* ---- the registry file field by field, and the environment (config.rs)
    doc,           \* the JSON document of the registry file, where its
                   \* fields matter; elsewhere config_file stands for it
    env            \* the TOOLER_* environment variables

hostVars == <<raw_os, raw_arch, is_musl>>
selectVars == <<assets, selected, spc>>
registryVars == <<config, config_file, fs, staging, pc, inv, clock, published,
                  last_cmd, pin_note>>

cmdVars == <<run, settings, doc, env>>

vars == <<raw_os, raw_arch, is_musl, assets, selected, spc, config, config_file,
          fs, staging, pc, inv, clock, published, last_cmd, pin_note, run,
          settings, doc, env>>

-----------------------------------------------------------------------------
(* Bounds of the model.                                                    *)

\* The longest asset list the matcher is run on.
MaxAssets == 3

\* How many installs may complete (each stamps its record with the clock).
MaxClock == 2

-----------------------------------------------------------------------------
(* String primitives of the Rust standard library, on TLA+ strings.  Each   *)
(* is computed character by character; the results for the names the model *)
(* uses are tabulated once (the tables hold exactly the computed values).  *)

contains_rec(s, t) ==
    \E i \in 1..(Len(s) - Len(t) + 1) : SubSeq(s, i, i + Len(t) - 1) = t

ends_with_rec(s, t) ==
    Len(s) >= Len(t) /\ SubSeq(s, Len(s) - Len(t) + 1, Len(s)) = t

\* str::starts_with
StartsWith(s, t) ==
    Len(s) >= Len(t) /\ SubSeq(s, 1, Len(t)) = t

UpperLetters == "ABCDEFGHIJKLMNOPQRSTUVWXYZ"
LowerLetters == "abcdefghijklmnopqrstuvwxyz"

LowerChar(c) ==
    IF \E i \in 1..Len(UpperLetters) : SubSeq(UpperLetters, i, i) = c
    THEN LET i == CHOOSE k \in 1..Len(UpperLetters) : SubSeq(UpperLetters, k, k) = c
         IN  SubSeq(LowerLetters, i, i)
    ELSE c

RECURSIVE lower_rec(_)
lower_rec(s) ==
    IF s = "" THEN "" ELSE LowerChar(SubSeq(s, 1, 1)) \o lower_rec(Tail(s))

\* The asset names that occur in the model, and the needles the matcher
\* searches them for.
AssetPool ==
    {"tool-linux-amd64.tar.gz", "tool-darwin-amd64.tar.gz", "tool.sha256",
     "tool-linux-arm64", "tool-linux-arm", "tool-darwin-arm64.tar.gz",
     "tool-linux-arm64-musl.tar.gz", "tool_linux_arm64.deb",
     "tool-1.0-py3-none-any.whl", "tool-2.0-py3-none-any.whl",
     "tool-linux-amd64", "tool-linux.tar.gz"}

Needles ==
    {"linux", "unknown-linux", "pc-linux", "darwin", "macos", "osx",
     "windows", "win", "cygwin", "amd64", "x64", "x86_64", "arm64", "aarch64",
     "arm", "armv7", "musl"}

Suffixes ==
    {".tar.gz", ".zip", ".tar.xz", ".tgz", ".apk", ".deb", ".rpm", ".sha256",
     ".asc", ".sig", ".pem", ".pub", ".md", ".txt", ".pom", ".xml", ".json",
     ".whl"}

\* The repository and tool names that occur in the model.
ToolNames == {"owner/tool", "tool", "other/app", "app"}

LoweredTable == [a \in AssetPool \cup ToolNames |-> lower_rec(a)]
LoweredNames == {LoweredTable[a] : a \in AssetPool}
ContainsTable == [n \in LoweredNames, t \in Needles |-> contains_rec(n, t)]
EndsWithTable == [n \in LoweredNames, t \in Suffixes |-> ends_with_rec(n, t)]

\* str::to_lowercase (ASCII names)
to_lowercase(s) ==
    IF s \in DOMAIN LoweredTable THEN LoweredTable[s] ELSE lower_rec(s)

\* str::contains
Contains(s, t) ==
    IF s \in LoweredNames /\ t \in Needles THEN ContainsTable[s, t]
    ELSE contains_rec(s, t)

\* str::ends_with
EndsWith(s, t) ==
    IF s \in LoweredNames /\ t \in Suffixes THEN EndsWithTable[s, t]
    ELSE ends_with_rec(s, t)

\* Option<T>
None == [some |-> FALSE]
Some(x) == [some |-> TRUE, val |-> x]

Range(f) == {f[i] : i \in DOMAIN f}

-----------------------------------------------------------------------------
(* Platform Descriptor: platform.rs get_system_info.                       *)

\* The hosts the model runs on: what std::env::consts reports there.
HostOS == {"linux", "macos", "windows"}
HostArch == {"x86_64", "aarch64", "arm"}

get_system_info(os, arch) ==
    [os   |-> os,
     arch |-> CASE arch = "x86_64"  -> "amd64"
                [] arch = "aarch64" -> "arm64"
                [] arch = "arm"     -> "arm"
                [] OTHER            -> arch]

system_os == get_system_info(raw_os, raw_arch).os
system_arch == get_system_info(raw_os, raw_arch).arch

-----------------------------------------------------------------------------
(* Asset Matcher: platform.rs find_asset_for_platform / categorize_assets. *)

os_aliases ==
    << <<"linux",   <<"linux", "unknown-linux", "pc-linux">> >>,
       <<"darwin",  <<"darwin", "macos", "osx">> >>,
       <<"windows", <<"windows", "win", "cygwin">> >> >>

arch_aliases ==
    << <<"x86_64",  <<"amd64", "x64", "x86_64">> >>,
       <<"aarch64", <<"arm64", "aarch64">> >>,
       <<"arm64",   <<"arm64", "aarch64">> >>,
       <<"arm",     <<"arm", "armv7">> >> >>

archive_exts == <<".tar.gz", ".zip", ".tar.xz", ".tgz">>
package_exts == <<".apk", ".deb", ".rpm">>
invalid_exts == <<".sha256", ".asc", ".sig", ".pem", ".pub", ".md", ".txt",
                  ".pom", ".xml", ".json", ".whl">>

priority_order == <<"os_arch_archive", "os_arch_binary", "os_arch_package">>

AnyExt(name_lower, exts) == \E i \in DOMAIN exts : EndsWith(name_lower, exts[i])

AnyAlias(name_lower, table) ==
    \E i \in DOMAIN table : \E j \in DOMAIN table[i][2] :
        Contains(name_lower, table[i][2][j])

\* The bucket categorize_assets pushes the asset to; "skip" for `continue`.
category_of(name) ==
    LET name_lower == to_lowercase(name)
        has_os     == AnyAlias(name_lower, os_aliases)
        has_arch   == AnyAlias(name_lower, arch_aliases)
        is_archive == AnyExt(name_lower, archive_exts)
        is_package == AnyExt(name_lower, package_exts)
        is_binary  == ~is_archive /\ ~is_package
        kind       == IF is_archive THEN "archive"
                      ELSE IF is_binary THEN "binary" ELSE "package"
    IN  IF AnyExt(name_lower, invalid_exts) THEN "skip"
        ELSE IF has_os /\ has_arch THEN "os_arch_" \o kind
        ELSE IF has_os THEN "os_only_" \o kind
        ELSE IF has_arch THEN "arch_only_" \o kind
        ELSE "skip"

\* candidates[category]: the assets of that bucket, in input order.
categorize_assets(as, category) ==
    SelectSeq(as, LAMBDA a : category_of(a) = category)

os_match(name_lower, sys_os) ==
    \E i \in DOMAIN os_aliases :
        /\ os_aliases[i][1] = sys_os
        /\ \E j \in DOMAIN os_aliases[i][2] : Contains(name_lower, os_aliases[i][2][j])

\* Special handling for "arm" to avoid matching "arm64".
alias_hit_no_exclusion(name_lower, alias) ==
    Contains(name_lower, alias)

alias_hit(name_lower, alias) ==
    /\ Contains(name_lower, alias)
    /\ ~(alias = "arm" /\ Contains(name_lower, "arm64"))

arch_match(name_lower, sys_arch) ==
    \E i \in DOMAIN arch_aliases :
        /\ arch_aliases[i][1] = sys_arch
        /\ \E j \in DOMAIN arch_aliases[i][2] :
              alias_hit(name_lower, arch_aliases[i][2][j])

\* The filter closure of the priority loop.
asset_matches(name, category, sys_os, sys_arch) ==
    LET name_lower == to_lowercase(name)
    IN  IF StartsWith(category, "os_arch_")
        THEN os_match(name_lower, sys_os) /\ arch_match(name_lower, sys_arch)
        ELSE IF StartsWith(category, "os_only_") THEN os_match(name_lower, sys_os)
        ELSE IF StartsWith(category, "arch_only_") THEN arch_match(name_lower, sys_arch)
        ELSE FALSE

\* The key of min_by_key: 0 perfect, 2 musl system / glibc asset, 1 the reverse.
musl_key(name, musl) ==
    LET asset_is_musl == Contains(to_lowercase(name), "musl")
    IN  IF asset_is_musl = musl THEN 0
        ELSE IF ~asset_is_musl /\ musl THEN 2
        ELSE 1

\* Iterator::min_by_key: the first of the minimal elements.
min_by_key(seq, musl) ==
    LET i == CHOOSE k \in DOMAIN seq :
                 /\ \A j \in DOMAIN seq : musl_key(seq[k], musl) <= musl_key(seq[j], musl)
                 /\ \A j \in 1..(k - 1) : musl_key(seq[j], musl) > musl_key(seq[k], musl)
    IN  seq[i]

matching_assets(as, category, sys_os, sys_arch) ==
    SelectSeq(categorize_assets(as, category),
              LAMBDA a : asset_matches(a, category, sys_os, sys_arch))

\* A fallback that takes the last wheel of the list.
whl_fallback_last(as) ==
    LET whls == SelectSeq(as, LAMBDA a : EndsWith(to_lowercase(a), ".whl"))
    IN  IF whls # <<>> THEN Some(whls[Len(whls)]) ELSE None

\* Lines 164-173: the first .whl of the list.
whl_fallback(as) ==
    LET whls == SelectSeq(as, LAMBDA a : EndsWith(to_lowercase(a), ".whl"))
    IN  IF whls # <<>> THEN Some(whls[1]) ELSE None

find_asset_for_platform(as, sys_os, sys_arch, musl) ==
    LET hits == [p \in DOMAIN priority_order |->
                    matching_assets(as, priority_order[p], sys_os, sys_arch)]
        live == {p \in DOMAIN priority_order : hits[p] # <<>>}
    IN  IF live # {}
        THEN LET p == CHOOSE q \in live : \A r \in live : q <= r
             IN  Some(min_by_key(hits[p], musl))
        ELSE whl_fallback(as)

-----------------------------------------------------------------------------
(* More of the Rust string library.                                        *)

Char(s, i) == IF i \in 1..Len(s) THEN SubSeq(s, i, i) ELSE ""

IsDigit(c) == c # "" /\ contains_rec("0123456789", c)

\* str::find / str::rfind of a one-character pattern; 0 for None.
find_char(s, c) ==
    IF \E i \in 1..Len(s) : Char(s, i) = c
    THEN CHOOSE i \in 1..Len(s) : Char(s, i) = c /\ \A j \in 1..(i - 1) : Char(s, j) # c
    ELSE 0

rfind_char(s, c) ==
    IF \E i \in 1..Len(s) : Char(s, i) = c
    THEN CHOOSE i \in 1..Len(s) : Char(s, i) = c /\ \A j \in (i + 1)..Len(s) : Char(s, j) # c
    ELSE 0

\* str::split(c), as the sequence of its parts.
RECURSIVE split(_, _)
split(s, c) ==
    LET i == find_char(s, c)
    IN  IF i = 0 THEN <<s>>
        ELSE <<SubSeq(s, 1, i - 1)>> \o split(SubSeq(s, i + 1, Len(s)), c)

\* str::replace of a one-character pattern.
RECURSIVE replace(_, _, _)
replace(s, c, t) ==
    IF s = "" THEN ""
    ELSE (IF Char(s, 1) = c THEN t ELSE Char(s, 1)) \o replace(Tail(s), c, t)

\* str::trim_start_matches(char): every leading occurrence goes.
RECURSIVE trim_start_matches(_, _)
trim_start_matches(s, c) ==
    IF s # "" /\ Char(s, 1) = c THEN trim_start_matches(Tail(s), c) ELSE s

\* str::trim_end_matches(&str): the suffix is removed as often as it occurs.
RECURSIVE trim_end_matches(_, _)
trim_end_matches(s, suf) ==
    IF suf # "" /\ ends_with_rec(s, suf)
    THEN trim_end_matches(SubSeq(s, 1, Len(s) - Len(suf)), suf)
    ELSE s

\* The end of the longest run of digits that starts at i (i - 1: no digit).
RECURSIVE digits_end(_, _)
digits_end(s, i) ==
    IF i <= Len(s) /\ IsDigit(Char(s, i)) THEN digits_end(s, i + 1) ELSE i - 1

\* The end of a match of \d+\.\d+\.\d+ starting at i; 0 when there is none.
semver_end(s, i) ==
    LET a == digits_end(s, i)
        b == digits_end(s, a + 2)
        c == digits_end(s, b + 2)
    IN  IF /\ a >= i /\ Char(s, a + 1) = "."
           /\ b >= a + 2 /\ Char(s, b + 1) = "."
           /\ c >= b + 2
        THEN c ELSE 0

\* Regex::new(r"v?(\d+\.\d+\.\d+)").find: the leftmost match, as Option<String>.
version_regex_find(s) ==
    LET match_end(i) == IF Char(s, i) = "v" /\ semver_end(s, i + 1) # 0
                        THEN semver_end(s, i + 1)
                        ELSE semver_end(s, i)
        starts == {i \in 1..Len(s) : match_end(i) # 0}
    IN  IF starts = {} THEN None
        ELSE LET i == CHOOSE k \in starts : \A j \in starts : k <= j
             IN  Some(SubSeq(s, i, match_end(i)))

-----------------------------------------------------------------------------
(* Identifier Parser: tool_id.rs ToolIdentifier.                           *)

ParseErr == [ok |-> FALSE]

parse_url(tool_id) ==
    LET cut == tool_id # "" /\ contains_rec(tool_id, "@") /\ ~contains_rec(tool_id, "@v")
        at  == rfind_char(tool_id, "@")
        url_part     == IF cut THEN SubSeq(tool_id, 1, at - 1) ELSE tool_id
        version_part == IF cut THEN Some(SubSeq(tool_id, at + 1, Len(tool_id))) ELSE None
        segs == split(url_part, "/")
        last == segs[Len(segs)]
        name == trim_end_matches(
                    trim_end_matches(
                        trim_end_matches(
                            trim_end_matches(split(last, "?")[1], ".zip"),
                            ".tar.gz"),
                        ".tgz"),
                    ".tar.xz")
        version == IF version_part.some THEN version_part
                   ELSE version_regex_find(url_part)
    IN  [ok |-> TRUE, forge |-> "url", author |-> "direct", repo |-> name,
         version |-> version, url |-> Some(url_part)]

parse_github(tool_id) ==
    LET at == find_char(tool_id, "@")
        repo_part    == IF at # 0 THEN SubSeq(tool_id, 1, at - 1) ELSE tool_id
        version_part == IF at # 0 THEN Some(SubSeq(tool_id, at + 1, Len(tool_id)))
                        ELSE Some("default")
        repo_parts == split(repo_part, "/")
    IN  IF Len(repo_parts) = 1
        THEN [ok |-> TRUE, forge |-> "github", author |-> "unknown",
              repo |-> repo_parts[1], version |-> version_part, url |-> None]
        ELSE IF Len(repo_parts) = 2
        THEN [ok |-> TRUE, forge |-> "github", author |-> repo_parts[1],
              repo |-> repo_parts[2], version |-> version_part, url |-> None]
        ELSE ParseErr

parse(tool_id) ==
    IF tool_id = "" THEN ParseErr
    ELSE IF StartsWith(tool_id, "-") THEN ParseErr
    ELSE IF StartsWith(tool_id, "http://") \/ StartsWith(tool_id, "https://")
    THEN parse_url(tool_id)
    ELSE parse_github(tool_id)

full_repo(id) ==
    IF id.author = "unknown" THEN id.repo ELSE id.author \o "/" \o id.repo

tool_name(id) == id.repo

version_or_default(id) == IF id.version.some THEN id.version.val ELSE "default"

api_version(id) ==
    LET v == version_or_default(id)
    IN  IF v = "default" THEN "latest"
        ELSE IF \/ contains_rec(v, "/")
                \/ (v # "" /\ ~IsDigit(Char(v, 1)))
                \/ StartsWith(v, "v")
        THEN v
        ELSE "v" \o v

\* The pre-`@` key format `<repo>:<version>` that lookups still accept.
config_key_colon(id) ==
    LET version == version_or_default(id)
    IN  IF version = "default" THEN full_repo(id) \o ":latest"
        ELSE full_repo(id) \o ":" \o version

config_key(id) ==
    LET version == version_or_default(id)
    IN  IF version = "default" THEN full_repo(id) \o "@latest"
        ELSE full_repo(id) \o "@" \o version

default_config_key(id) == full_repo(id) \o "@latest"

is_pinned(id) == id.version.some /\ version_or_default(id) # "default"

-----------------------------------------------------------------------------
(* The world of the registry model: one GitHub repository with two        *)
(* releases, the queries a user types, and what the downloaded assets     *)
(* hold.                                                                   *)

Repo == "owner/tool"
\* The repositories that exist upstream; they publish the same releases.
Repos == {Repo, "other/app"}

\* The tags of the repository's releases, in publication order.
AllTags == <<"v1.2.3", "v2.0.0">>

ReleaseAssets(tag) ==
    IF tag = "v1.2.3"
    THEN <<"tool-linux-amd64.tar.gz", "tool-linux-arm64", "tool.sha256">>
    ELSE <<"tool-1.0-py3-none-any.whl">>

\* What the user types as <tool> on the command line.
Queries == {"owner/tool", "owner/tool@v1.2.3", "owner/tool@2.0.0"}

\* What the user passes as --asset.
AssetOverrides == {None, Some("tool-linux-amd64.tar.gz")}

\* What the user types as <tool> for a lookup (info, run): the same, the bare
\* tool name, and an under-specified version.
LookupQueries == Queries \cup {"tool", "owner/tool@1.2"}

\* The tools run with the update check on, and what the update check asks
\* install_or_update_tool for: <repo> at <latest tag>.
SweepQueries == {"owner/tool", "other/app", "owner/tool@v2.0.0"}
AutoUpdateQueries ==
    {r \o "@" \o AllTags[i] : r \in {"owner/tool", "other/app"},
                              i \in 1..Len(AllTags)}

ParseTable ==
    [q \in LookupQueries \cup SweepQueries \cup AutoUpdateQueries
            \cup {r \o "@latest" : r \in Repos} |-> parse(q)]
Parsed(q) == IF q \in DOMAIN ParseTable THEN ParseTable[q] ELSE parse(q)

\* Finite maps (HashMap<String, _>) as functions.
EmptyMap == [k \in {} |-> {}]
MapPut(m, k, v) == [x \in DOMAIN m \cup {k} |-> IF x = k THEN v ELSE m[x]]
MapDel(m, ks) == [x \in DOMAIN m \ ks |-> m[x]]

\* Path::join.
Join(a, b) == a \o "/" \o b

\* Path::exists, for a path that is a versioned directory or a file in one.
path_exists(files, p) ==
    \/ p \in DOMAIN files
    \/ \E d \in DOMAIN files : \E f \in files[d] : p = Join(d, f)

\* get_tooler_tools_dir().
ToolsDir == "tools"

\* The executable find_executable_in_extracted picks in the extracted tree of
\* each archive of the repository.
ExtractedExec(asset) ==
    IF asset = "tool-linux-amd64.tar.gz" THEN "bin/tool" ELSE "tool"

-----------------------------------------------------------------------------
(* install.rs: fetching the release, and the pieces of                     *)
(* install_or_update_tool.                                                 *)

\* The tag get_gh_release_info asks the API for.
release_request(version) ==
    IF version = "latest" THEN "latest"
    ELSE IF StartsWith(version, "v") THEN version
    ELSE IF IsDigit(Char(version, 1)) /\ find_char(version, "/") = 0
         THEN "v" \o version
    ELSE version

\* The answers get_gh_release_info can get: the request fails, the release
\* does not exist, or the release is returned.
get_gh_release_info(repo_full_name, version) ==
    LET req == release_request(version)
        tag == IF req = "latest" THEN AllTags[published] ELSE req
    IN  {[ok |-> FALSE, phase |-> "metadata"]} \cup
        (IF repo_full_name \in Repos /\ tag \in {AllTags[i] : i \in 1..published}
         THEN {[ok |-> TRUE, tag_name |-> tag, assets |-> ReleaseAssets(tag)]}
         ELSE {})

forge_prefix(id) == IF id.forge = "github" THEN "github" ELSE "url"

\* Lines 171-178.
tool_install_base_dir(id, repo_full_name) ==
    Join(Join(ToolsDir, forge_prefix(id)),
         replace(repo_full_name, "/", "__") \o "__" \o system_arch)

tool_version_dir(id, repo_full_name, actual_version) ==
    Join(tool_install_base_dir(id, repo_full_name),
         replace(actual_version, "/", "__"))

\* Lines 100-178, for an identifier that parsed: an error, or the locals
\* (actual_version, asset_info, repo_full_name, tool_key, tool_version_dir).
resolved(id, version, asset, repo_full_name) ==
    IF ~asset.some
    THEN [ok |-> FALSE, phase |-> "select"]
    ELSE [ok |-> TRUE, actual_version |-> version, asset |-> asset.val,
          repo_full_name |-> repo_full_name,
          tool_key |-> config_key(id),
          tool_version_dir |-> tool_version_dir(id, repo_full_name, version)]

\* The matcher's choice on each release of the repository, for the glibc
\* linux hosts, computed once.
MatcherTable ==
    [as \in {ReleaseAssets(AllTags[i]) : i \in 1..Len(AllTags)}, arch \in HostArch
        |-> find_asset_for_platform(as, get_system_info("linux", arch).os,
                                    get_system_info("linux", arch).arch, FALSE)]

\* Lines 106-128: the asset named by --asset, or the matcher's choice.
pick_asset(release_assets, asset_override) ==
    IF asset_override.some
    THEN IF asset_override.val \in Range(release_assets)
         THEN asset_override ELSE None
    ELSE IF /\ raw_os = "linux"
            /\ ~is_musl
            /\ <<release_assets, raw_arch>> \in DOMAIN MatcherTable
    THEN MatcherTable[release_assets, raw_arch]
    ELSE find_asset_for_platform(release_assets, system_os, system_arch,
                                 is_musl)

\* Lines 88-178, for the parsed identifier id: fetch the release, pick the
\* asset, name the directories.
resolve(id, asset_override) ==
    IF to_lowercase(tool_name(id)) = "tooler-shim"
    THEN {[ok |-> FALSE, phase |-> "parse"]}
    ELSE IF id.forge = "github"
    THEN UNION {IF ~r.ok THEN {r}
                ELSE {resolved(id, r.tag_name, asset, full_repo(id))
                      : asset \in {pick_asset(r.assets, asset_override)}}
                : r \in get_gh_release_info(full_repo(id), api_version(id))}
    ELSE {resolved(id,
                   IF id.version.some THEN id.version.val ELSE "unknown",
                   Some(LET parts == split(id.url.val, "/")
                        IN  parts[Len(parts)]),
                   full_repo(id))}

\* Lines 188-232: the test that ends the install early.
already_installed(tools, files, tool_key, version_dir, asset_override) ==
    /\ tool_key \in DOMAIN tools
    /\ IF asset_override.some
       THEN path_exists(files, Join(version_dir, asset_override.val))
       ELSE path_exists(files, tools[tool_key].executable_path)

IsArchiveName(name) ==
    \/ EndsWith(to_lowercase(name), ".tar.gz")
    \/ EndsWith(to_lowercase(name), ".zip")
    \/ EndsWith(to_lowercase(name), ".tar.xz")
    \/ EndsWith(to_lowercase(name), ".tgz")

\* Lines 245-305: what a successful staging leaves in the staging directory,
\* the executable's path in it, and the install type.
stage(asset, name) ==
    IF EndsWith(to_lowercase(asset), ".whl")
    THEN [files |-> {".venv", name}, exec |-> name,
          install_type |-> "python-venv"]
    ELSE IF IsArchiveName(asset)
    THEN [files |-> {asset, ExtractedExec(asset)},
          exec |-> ExtractedExec(asset), install_type |-> "archive"]
    ELSE LET final_binary_name ==
                 IF system_os = "windows" THEN name \o ".exe" ELSE name
         IN  [files |-> {asset, final_binary_name},
              exec |-> final_binary_name, install_type |-> "binary"]

\* Lines 241-243 and the `?` returns of 245-305: staging happens in a TempDir
\* beside the versioned directory, so a failed staging leaves the versioned
\* directories as they were.
fs_after_stage_error_in_place(files, version_dir) == MapDel(files, {version_dir})
fs_after_stage_error(files, version_dir) == files

\* Lines 324-335.
new_tool_info_keep_v(id, actual_version, exec_path, install_type, now) ==
    [tool_name |-> to_lowercase(tool_name(id)),
     repo |-> full_repo(id),
     version |-> actual_version,
     executable_path |-> exec_path,
     install_type |-> install_type,
     pinned |-> is_pinned(id),
     installed_at |-> now,
     last_accessed |-> now,
     forge |-> id.forge]
new_tool_info(id, actual_version, exec_path, install_type, now) ==
    [tool_name |-> to_lowercase(tool_name(id)),
     repo |-> full_repo(id),
     version |-> trim_start_matches(actual_version, "v"),
     executable_path |-> exec_path,
     install_type |-> install_type,
     pinned |-> is_pinned(id),
     installed_at |-> now,
     last_accessed |-> now,
     forge |-> id.forge]

-----------------------------------------------------------------------------
(* install.rs: version matching and lookup.  Versions are taken without   *)
(* pre-release or build metadata: digits and dots.                         *)

DigitVal(c) ==
    CASE c = "0" -> 0 [] c = "1" -> 1 [] c = "2" -> 2 [] c = "3" -> 3
      [] c = "4" -> 4 [] c = "5" -> 5 [] c = "6" -> 6 [] c = "7" -> 7
      [] c = "8" -> 8 [] OTHER -> 9

IsNumber(s) == Len(s) > 0 /\ \A i \in 1..Len(s) : IsDigit(Char(s, i))

RECURSIVE parse_u64(_)
parse_u64(s) ==
    IF Len(s) = 0 THEN 0
    ELSE 10 * parse_u64(SubSeq(s, 1, Len(s) - 1)) + DigitVal(Char(s, Len(s)))

\* A numeric identifier of semver: digits, no leading zero.
IsNumericIdent(s) == IsNumber(s) /\ (Len(s) = 1 \/ Char(s, 1) # "0")

\* semver::Version::parse.
Version_parse(s) ==
    LET parts == split(s, ".")
    IN  IF Len(parts) = 3 /\ \A i \in 1..3 : IsNumericIdent(parts[i])
        THEN [ok |-> TRUE, major |-> parse_u64(parts[1]),
              minor |-> parse_u64(parts[2]), patch |-> parse_u64(parts[3])]
        ELSE [ok |-> FALSE]

\* Ord for semver::Version: TRUE iff a < b.
Version_lt(a, b) ==
    \/ a.major < b.major
    \/ a.major = b.major /\ a.minor < b.minor
    \/ a.major = b.major /\ a.minor = b.minor /\ a.patch < b.patch

\* semver::VersionReq::parse of a one- or two-component version: the caret
\* requirement on it.
VersionReq_parse(s) ==
    LET parts == split(s, ".")
    IN  IF Len(parts) \in 1..2 /\ \A i \in 1..Len(parts) : IsNumericIdent(parts[i])
        THEN [ok |-> TRUE, major |-> parse_u64(parts[1]),
              has_minor |-> Len(parts) = 2,
              minor |-> IF Len(parts) = 2 THEN parse_u64(parts[2]) ELSE 0]
        ELSE [ok |-> FALSE]

\* VersionReq::matches for a caret requirement.
VersionReq_matches(req, v) ==
    /\ v.major = req.major
    /\ IF ~req.has_minor THEN TRUE
       ELSE IF req.major > 0 THEN v.minor >= req.minor
       ELSE v.minor = req.minor

version_matches(requested, existing) ==
    LET requested_clean == trim_start_matches(requested, "v")
        existing_clean == trim_start_matches(existing, "v")
        req_parse == Version_parse(requested_clean)
        exist_parse == Version_parse(existing_clean)
        req_parts == Len(split(requested_clean, "."))
    IN  IF requested_clean = existing_clean THEN TRUE
        ELSE IF req_parse.ok /\ exist_parse.ok
        THEN IF req_parts <= 2
             THEN /\ req_parse.major = exist_parse.major
                  /\ req_parse.minor = exist_parse.minor
             ELSE req_parse = exist_parse
        ELSE IF /\ req_parts <= 2
                /\ VersionReq_parse(requested_clean).ok
                /\ exist_parse.ok
        THEN VersionReq_matches(VersionReq_parse(requested_clean), exist_parse)
        ELSE requested_clean = existing_clean

\* str::cmp, on the version strings of the model (digits and dots sort
\* before letters): TRUE iff a < b.
RECURSIVE str_lt(_, _)
str_lt(a, b) ==
    IF Len(b) = 0 THEN FALSE
    ELSE IF Len(a) = 0 THEN TRUE
    ELSE IF Char(a, 1) = Char(b, 1) THEN str_lt(Tail(a), Tail(b))
    ELSE LET rank(c) == IF c = "." THEN 0
                        ELSE IF IsDigit(c) THEN 1 + DigitVal(c) ELSE 11
         IN  rank(Char(a, 1)) < rank(Char(b, 1))

\* The comparison by the strings alone, which puts 1.9.0 above 1.10.0.
version_less_by_string(a, b) ==
    str_lt(trim_start_matches(a.version, "v"),
           trim_start_matches(b.version, "v"))

\* The comparison find_highest_version hands to max_by: TRUE iff a < b.
version_less(a, b) ==
    LET a_clean == trim_start_matches(a.version, "v")
        b_clean == trim_start_matches(b.version, "v")
    IN  IF Version_parse(a_clean).ok /\ Version_parse(b_clean).ok
        THEN Version_lt(Version_parse(a_clean), Version_parse(b_clean))
        ELSE str_lt(a_clean, b_clean)

\* find_highest_version: max_by over the records in HashMap order, any of
\* the records no other record is above.
find_highest_version(tools) ==
    IF tools = {} THEN {None}
    ELSE {Some(t) : t \in {t \in tools : \A u \in tools : ~version_less(t, u)}}

\* Path::file_name and Path::file_stem.
file_name(path) ==
    LET i == rfind_char(path, "/")
    IN  SubSeq(path, i + 1, Len(path))

file_stem(path) ==
    LET n == file_name(path)
        i == rfind_char(n, ".")
    IN  IF i <= 1 THEN n ELSE SubSeq(n, 1, i - 1)

repo_is(info, id) == to_lowercase(info.repo) = to_lowercase(full_repo(id))

repo_named(info, id) ==
    \/ EndsWith(to_lowercase(info.repo), "/" \o to_lowercase(tool_name(id)))
    \/ to_lowercase(info.repo) = to_lowercase(tool_name(id))

exec_named(info, id) ==
    \/ to_lowercase(file_name(info.executable_path)) = to_lowercase(tool_name(id))
    \/ to_lowercase(file_stem(info.executable_path)) = to_lowercase(tool_name(id))

name_matches_repo_only(info, id) ==
    id.author # "unknown" /\ repo_is(info, id)
name_matches(info, id) ==
    \/ to_lowercase(info.tool_name) = to_lowercase(tool_name(id))
    \/ id.author # "unknown" /\ repo_is(info, id)
    \/ repo_named(info, id)
    \/ exec_named(info, id)

\* Lines 499-501: the record at the query's own key.
exact_match_skipped(tools, tool_key) == None
exact_match(tools, tool_key) ==
    IF tool_key \in DOMAIN tools THEN Some(tools[tool_key]) ELSE None

\* find_tool_executable for the parsed query id: the records it can return
\* (None: no record).  Iterator::find over HashMap::values returns any of
\* the values its test accepts; max_by_key any of the greatest.
find_by_id(tools, id) ==
    IF ~id.ok THEN {None}
    ELSE IF is_pinned(id)
    THEN IF exact_match(tools, config_key(id)).some
         THEN {exact_match(tools, config_key(id))}
         ELSE IF \E k \in DOMAIN tools : repo_is(tools[k], id)
         THEN {Some(tools[k]) : k \in {k \in DOMAIN tools : repo_is(tools[k], id)}}
         ELSE IF \E k \in DOMAIN tools : repo_named(tools[k], id)
         THEN {Some(tools[k]) : k \in {k \in DOMAIN tools : repo_named(tools[k], id)}}
         ELSE IF \E k \in DOMAIN tools : exec_named(tools[k], id)
         THEN {Some(tools[k]) : k \in {k \in DOMAIN tools : exec_named(tools[k], id)}}
         ELSE IF (full_repo(id) \o ":" \o api_version(id)) \in DOMAIN tools
         THEN {Some(tools[full_repo(id) \o ":" \o api_version(id)])}
         ELSE find_highest_version(
                  {tools[k] : k \in {k \in DOMAIN tools :
                       /\ name_matches(tools[k], id)
                       /\ version_matches(id.version.val, tools[k].version)}})
    ELSE IF \A k \in DOMAIN tools : ~name_matches(tools[k], id)
    THEN {None}
    ELSE {Some(tools[k]) : k \in {k \in DOMAIN tools :
             /\ name_matches(tools[k], id)
             /\ \A u \in DOMAIN tools :
                    name_matches(tools[u], id)
                        => tools[u].last_accessed <= tools[k].last_accessed}}

find_tool_executable(tools, tool_query) ==
    UNION {find_by_id(tools, id) : id \in {Parsed(tool_query)}}

\* pin_tool, lines 697-708: the registry once the record at tool_key is
\* pinned.
pin_without_copy(tools, tool_key, latest_key) ==
    LET tool_info == [tools[tool_key] EXCEPT !.pinned = TRUE]
        pinned_one == [tools EXCEPT ![tool_key] = tool_info]
    IN  IF latest_key \in DOMAIN pinned_one
        THEN [pinned_one EXCEPT ![latest_key] =
                 [pinned_one[latest_key] EXCEPT !.pinned = TRUE]]
        ELSE pinned_one
pin(tools, tool_key, latest_key) ==
    LET tool_info == [tools[tool_key] EXCEPT !.pinned = TRUE]
        pinned_one == [tools EXCEPT ![tool_key] = tool_info]
    IN  IF latest_key \in DOMAIN pinned_one
        THEN [pinned_one EXCEPT ![latest_key] =
                 [pinned_one[latest_key] EXCEPT
                     !.pinned = TRUE,
                     !.version = tool_info.version,
                     !.executable_path = tool_info.executable_path]]
        ELSE pinned_one

\* pin_tool, lines 690-725: Ok or Err, and config.tools when it returns.
pin_tool_latest_first(tools, id) ==
    IF id.ok /\ config_key(id) \in DOMAIN tools
    THEN [ok |-> TRUE,
          tools |-> pin(tools, config_key(id), default_config_key(id))]
    ELSE IF id.ok /\ default_config_key(id) \in DOMAIN tools
    THEN [ok |-> FALSE,
          tools |-> [tools EXCEPT ![default_config_key(id)].pinned = TRUE]]
    ELSE [ok |-> FALSE, tools |-> tools]
pin_tool(tools, id) ==
    IF id.ok /\ config_key(id) \in DOMAIN tools
    THEN [ok |-> TRUE,
          tools |-> pin(tools, config_key(id), default_config_key(id))]
    ELSE [ok |-> FALSE, tools |-> tools]

\* remove_tool, lines 739-750: the keys it removes.
keys_to_remove_of_repo(tools, tool_query) ==
    UNION {{k \in DOMAIN tools :
              \/ k = config_key(id)
              \/ to_lowercase(tools[k].repo) = to_lowercase(full_repo(id))}
           : id \in {Parsed(tool_query)}}
keys_to_remove(tools, tool_query) ==
    UNION {{k \in DOMAIN tools :
              \/ k = config_key(id)
              \/ /\ find_char(tool_query, "@") = 0
                 /\ find_char(tool_query, ":") = 0
                 /\ to_lowercase(tools[k].repo) = to_lowercase(tool_query)}
           : id \in {Parsed(tool_query)}}

\* remove_tool, lines 758-792: the directories removed for the record info.
dirs_removed(files, info) ==
    LET tool_base_dir ==
            Join(Join(ToolsDir, IF info.forge = "github" THEN "github" ELSE "url"),
                 replace(info.repo, "/", "__"))
    IN  {d \in DOMAIN files :
           \/ d = Join(tool_base_dir, info.version)
           \/ /\ StartsWith(d, tool_base_dir \o "__")
              /\ find_char(SubSeq(d, Len(tool_base_dir) + 3, Len(d)), "/") > 0
              /\ LET rest == SubSeq(d, Len(tool_base_dir) + 3, Len(d))
                     i == find_char(rest, "/")
                 IN  SubSeq(rest, i + 1, Len(rest)) = info.version}

-----------------------------------------------------------------------------
(* The registry state machine.  A command runs to its end in one step,     *)
(* except install_or_update_tool, which is followed through its four       *)
(* filesystem steps (stage, remove the old directory, rename the staging   *)
(* directory, record) and can fail or be interrupted between any two.      *)

NoInv == [query |-> ""]
NoRun == [active |-> FALSE]
\* ToolerSettings::default()
DefaultSettings ==
    [update_check_days |-> 60, auto_shim |-> TRUE, auto_update |-> TRUE,
     bin_dir |-> "~/.local/share/tooler/bin", parse_release_body |-> TRUE]
\* No registry file; no TOOLER_* variable set.
NoFile == [exists |-> FALSE]
NoEnv == [TOOLER_UPDATE_CHECK_DAYS |-> None, TOOLER_AUTO_SHIM |-> None,
          TOOLER_SHIM_DIR |-> None]
NoCmd == [op |-> "none"]
Absent == {"<no staging dir>"}

\* The versioned directory at path d, as an Option of its files.
DirState(files, d) == IF d \in DOMAIN files THEN Some(files[d]) ELSE None

\* The hosts the registry is exercised on.
RegistryHostArch == {"aarch64"}

Init ==
    /\ raw_os = "linux"
    /\ raw_arch \in RegistryHostArch
    /\ is_musl = FALSE
    /\ assets = <<>>
    /\ selected = None
    /\ spc = "registry"
    /\ config = EmptyMap
    /\ config_file = EmptyMap
    /\ fs = EmptyMap
    /\ staging = Absent
    /\ pc = "idle"
    /\ inv = NoInv
    /\ clock = 0
    /\ published = 1
    /\ last_cmd = NoCmd
    /\ pin_note = None
    /\ run = NoRun
    /\ settings = DefaultSettings
    /\ doc = NoFile
    /\ env = NoEnv

\* The repository publishes its next release.
PublishRelease ==
    /\ spc = "registry"
    /\ pc = "idle"
    /\ published < Len(AllTags)
    /\ published' = published + 1
    /\ UNCHANGED <<hostVars, selectVars, cmdVars, config, config_file, fs, staging, pc,
                   inv, clock, last_cmd, pin_note>>

\* The invocation as it reaches the already-installed test, with what it
\* finds on disk and in the registry.
Invocation(q, force, ov, r) ==
    [op |-> "install", query |-> q, force |-> force, asset_override |-> ov,
     result |-> "running", phase |-> "check",
     tool_key |-> r.tool_key, version_dir |-> r.tool_version_dir,
     actual_version |-> r.actual_version, asset |-> r.asset,
     pre_record |-> IF r.tool_key \in DOMAIN config
                    THEN Some(config[r.tool_key]) ELSE None,
     pre_exec_exists |->
         IF r.tool_key \in DOMAIN config
         THEN path_exists(fs, config[r.tool_key].executable_path)
         ELSE FALSE,
     pre_asset_cached |-> path_exists(fs, Join(r.tool_version_dir, r.asset)),
     pre_dir |-> DirState(fs, r.tool_version_dir),
     ret |-> None]

\* The invocation once past the already-installed test.
Running(c, phase) ==
    [op |-> "install", query |-> c.query, result |-> "running",
     phase |-> phase, tool_key |-> c.tool_key, version_dir |-> c.version_dir,
     actual_version |-> c.actual_version, asset |-> c.asset, ret |-> None]

\* install_or_update_tool up to line 243.  It returns an error before
\* anything is touched (lines 85-162), or finds the tool installed and
\* returns its recorded path (lines 188-232), or goes ahead and creates the
\* staging TempDir (lines 234-243).
InstallBegin(q, force, ov, limit) ==
    /\ spc = "registry"
    /\ pc = "idle"
    /\ \E id \in {Parsed(q)} :
       \E r \in (IF id.ok THEN resolve(id, ov)
                 ELSE {[ok |-> FALSE, phase |-> "parse"]}) :
          IF ~r.ok
          THEN /\ last_cmd' = [op |-> "install", result |-> "error",
                               phase |-> r.phase]
               /\ UNCHANGED <<staging, pc, inv, pin_note>>
          ELSE IF /\ ~force
                  /\ already_installed(config, fs, r.tool_key,
                                       r.tool_version_dir, ov)
          THEN /\ last_cmd' = [Invocation(q, force, ov, r) EXCEPT
                                 !.result = "ok",
                                 !.ret = Some(config[r.tool_key].executable_path)]
               /\ UNCHANGED <<staging, pc, inv, pin_note>>
          ELSE /\ clock < limit
               /\ last_cmd' = [Invocation(q, force, ov, r) EXCEPT
                                 !.phase = "stage"]
               /\ inv' = [query |-> q,
                          actual_version |-> r.actual_version,
                          asset |-> r.asset,
                          repo_full_name |-> r.repo_full_name,
                          tool_key |-> r.tool_key,
                          tool_version_dir |-> r.tool_version_dir,
                          executable_path |-> "", install_type |-> ""]
               /\ staging' = {}
               /\ pc' = "stage"
               /\ pin_note' = None
    /\ UNCHANGED <<hostVars, selectVars, config, config_file, fs, clock,
                   published>>

\* `tooler install`/`update`/`pull`: install_or_update_tool called from the
\* command line.
InstallStart(q, force, ov) ==
    /\ InstallBegin(q, force, ov, MaxClock)
    /\ UNCHANGED cmdVars

\* The command ends with an error: the TempDir is dropped, the process exits
\* and what it changed in memory only is lost.
Abort(result) ==
    /\ staging' = Absent
    /\ pc' = "idle"
    /\ inv' = NoInv
    /\ config' = config_file
    /\ last_cmd' = [last_cmd EXCEPT !.result = result]

\* Lines 245-305, all going well.
StageOk ==
    /\ pc = "stage"
    /\ \E id \in {Parsed(inv.query)} :
       \E s \in {stage(inv.asset, tool_name(id))} :
          /\ staging' = s.files
          /\ inv' = [inv EXCEPT !.executable_path = s.exec,
                                !.install_type = s.install_type]
    /\ pc' = "remove"
    /\ last_cmd' = Running(last_cmd, "remove")
    /\ UNCHANGED <<hostVars, selectVars, cmdVars, config, config_file, fs, clock,
                   published, pin_note>>

\* Lines 238-305: creating the directories, the download, the extraction or
\* the Python setup fails.
StageFail ==
    /\ pc = "stage"
    /\ fs' = fs_after_stage_error(fs, inv.tool_version_dir)
    /\ Abort("error")
    /\ UNCHANGED <<hostVars, selectVars, cmdVars, config_file, clock, published,
                   pin_note>>

\* Lines 308-310.
PromoteRemoveOk ==
    /\ pc = "remove"
    /\ fs' = IF inv.tool_version_dir \in DOMAIN fs
             THEN MapDel(fs, {inv.tool_version_dir}) ELSE fs
    /\ pc' = "rename"
    /\ last_cmd' = [last_cmd EXCEPT !.phase = "rename"]
    /\ UNCHANGED <<hostVars, selectVars, cmdVars, config, config_file, staging, inv,
                   clock, published, pin_note>>

\* Line 309: remove_dir_all fails, having removed some, none or all of the
\* directory's entries.
PromoteRemoveFail ==
    /\ pc = "remove"
    /\ inv.tool_version_dir \in DOMAIN fs
    /\ \E left \in SUBSET fs[inv.tool_version_dir] :
          fs' = [fs EXCEPT ![inv.tool_version_dir] = left]
    /\ Abort("error")
    /\ UNCHANGED <<hostVars, selectVars, cmdVars, config_file, clock, published,
                   pin_note>>

\* Lines 313-318.
PromoteRenameOk ==
    /\ pc = "rename"
    /\ fs' = MapPut(fs, inv.tool_version_dir, staging)
    /\ staging' = Absent
    /\ pc' = "record"
    /\ last_cmd' = [last_cmd EXCEPT !.phase = "record"]
    /\ UNCHANGED <<hostVars, selectVars, cmdVars, config, config_file, inv, clock,
                   published, pin_note>>

\* An orchestrator that records the tool before it promotes the staging
\* directory: the rename fails with the record inserted and saved.
PromoteRenameFail_recorded ==
    /\ pc = "rename"
    /\ \E id \in {Parsed(inv.query)} :
          config_file' = MapPut(config, inv.tool_key,
                                new_tool_info(id, inv.actual_version,
                                              Join(inv.tool_version_dir,
                                                   inv.executable_path),
                                              inv.install_type, clock))
    /\ staging' = Absent
    /\ pc' = "idle"
    /\ inv' = NoInv
    /\ config' = config_file'
    /\ last_cmd' = [last_cmd EXCEPT !.result = "error"]
    /\ UNCHANGED <<hostVars, selectVars, cmdVars, fs, clock, published,
                   pin_note>>

\* Line 318: fs::rename fails.
PromoteRenameFail ==
    /\ pc = "rename"
    /\ Abort("error")
    /\ UNCHANGED <<hostVars, selectVars, cmdVars, config_file, fs, clock, published,
                   pin_note>>

\* Lines 321-338 and 362, save_tool_configs succeeding.
RecordUpdate ==
    /\ pc = "record"
    /\ \E id \in {Parsed(inv.query)},
          final_executable_path \in
              {Join(inv.tool_version_dir, inv.executable_path)} :
          /\ config' = MapPut(config, inv.tool_key,
                              new_tool_info(id, inv.actual_version,
                                            final_executable_path,
                                            inv.install_type, clock + 1))
          /\ config_file' = config'
          /\ last_cmd' = [last_cmd EXCEPT
                             !.result = "ok", !.phase = "done",
                             !.ret = Some(final_executable_path)]
    /\ clock' = clock + 1
    /\ pc' = "idle"
    /\ inv' = NoInv
    /\ UNCHANGED <<hostVars, selectVars, cmdVars, fs, staging, published, pin_note>>

\* Line 338: save_tool_configs fails.
RecordFail ==
    /\ pc = "record"
    /\ Abort("error")
    /\ UNCHANGED <<hostVars, selectVars, cmdVars, config_file, fs, clock, published,
                   pin_note>>

\* The process is killed while install_or_update_tool runs.
Interrupt ==
    /\ pc # "idle"
    /\ Abort("interrupted")
    /\ UNCHANGED <<hostVars, selectVars, cmdVars, config_file, fs, clock, published,
                   pin_note>>

\* `tooler pin <q>`: main.rs line 518, pin_tool and save_tool_configs.
PinOk(q) ==
    /\ spc = "registry"
    /\ pc = "idle"
    /\ \E id \in {p \in {Parsed(q)} : p.ok} :
       \E tool_key \in {config_key(id)}, latest_key \in {default_config_key(id)} :
           /\ tool_key \in DOMAIN config
           /\ config' = pin(config, tool_key, latest_key)
           /\ config_file' = config'
           /\ last_cmd' = [op |-> "pin", result |-> "ok",
                           tool_key |-> tool_key, latest_key |-> latest_key,
                           pre_tools |-> config]
           /\ pin_note' = Some([query |-> q,
                                repo |-> full_repo(id),
                                version |-> config[tool_key].version,
                                executable_path |->
                                    config[tool_key].executable_path])
    /\ UNCHANGED <<hostVars, selectVars, cmdVars, fs, staging, pc, inv, clock,
                   published>>

\* pin_tool returns an error: the query does not parse or no record is at
\* its key.
PinErr(q) ==
    /\ spc = "registry"
    /\ pc = "idle"
    /\ \E id \in {Parsed(q)} :
       \E r \in {pin_tool(config, id)} :
          /\ ~r.ok
          /\ last_cmd' = [op |-> "pin", result |-> "error",
                          pre_tools |-> config, pre_file |-> config_file,
                          pre_settings |-> settings, returned |-> r.tools,
                          latest_there |->
                              id.ok /\ default_config_key(id) \in DOMAIN config]
    /\ config' = config_file
    /\ UNCHANGED <<hostVars, selectVars, cmdVars, config_file, fs, staging, pc,
                   inv, clock, published, pin_note>>

\* `tooler remove <q>`: main.rs lines 41-60 and remove_tool.
RemoveOk(q) ==
    /\ spc = "registry"
    /\ pc = "idle"
    /\ \E id \in {p \in {Parsed(q)} : p.ok} :
       \E tool_query \in {config_key(id)} :
       \E keys \in {keys_to_remove(config, tool_query)} :
           /\ keys # {}
           /\ config' = MapDel(config, keys)
           /\ config_file' = config'
           /\ fs' = MapDel(fs, UNION {dirs_removed(fs, config[k]) : k \in keys})
           /\ last_cmd' = [op |-> "remove", result |-> "ok", keys |-> keys]
    /\ pin_note' = None
    /\ UNCHANGED <<hostVars, selectVars, cmdVars, staging, pc, inv, clock, published>>

RemoveErr(q) ==
    /\ spc = "registry"
    /\ pc = "idle"
    /\ \E id \in {Parsed(q)} :
          id.ok => \E tool_query \in {config_key(id)} :
                      keys_to_remove(config, tool_query) = {}
    /\ last_cmd' = [op |-> "remove", result |-> "error"]
    /\ UNCHANGED <<hostVars, selectVars, cmdVars, config, config_file, fs, staging, pc,
                   inv, clock, published, pin_note>>

\* `tooler info <q>`: main.rs line 521, a lookup in the registry.
Info(q) ==
    /\ spc = "registry"
    /\ pc = "idle"
    /\ \E found \in find_tool_executable(config, q) :
          last_cmd' = [op |-> "info", query |-> q, result |-> "ok",
                       found |-> found]
    /\ UNCHANGED <<hostVars, selectVars, cmdVars, config, config_file, fs, staging, pc,
                   inv, clock, published, pin_note>>

Next ==
    \/ PublishRelease
    \/ \E q \in Queries, force \in BOOLEAN, ov \in AssetOverrides :
          InstallStart(q, force, ov)
    \/ StageOk
    \/ StageFail
    \/ PromoteRemoveOk
    \/ PromoteRemoveFail
    \/ PromoteRenameOk
    \/ PromoteRenameFail
    \/ RecordUpdate
    \/ RecordFail
    \/ Interrupt
    \/ \E q \in Queries :
          \/ PinOk(q)
          \/ PinErr(q)
          \/ RemoveOk(q)
          \/ RemoveErr(q)
          \/ Info(q)

Spec == Init /\ [][Next]_vars

\* The invocations of install_or_update_tool among the commands that change
\* the registry or the storage tree; the commands that change neither are
\* left out.
NextInstall ==
    \/ PublishRelease
    \/ \E q \in Queries, force \in BOOLEAN, ov \in AssetOverrides :
          InstallStart(q, force, ov)
    \/ StageOk
    \/ StageFail
    \/ PromoteRemoveOk
    \/ PromoteRemoveFail
    \/ PromoteRenameOk
    \/ PromoteRenameFail
    \/ RecordUpdate
    \/ RecordFail
    \/ Interrupt
    \/ \E q \in Queries :
          \/ PinOk(q)
          \/ RemoveOk(q)

SpecInstall == Init /\ [][NextInstall]_vars

\* The lookups of every form of <tool>, over registries built by installs
\* that succeed and by pins.
NextLookup ==
    \/ PublishRelease
    \/ \E q \in Queries : InstallStart(q, FALSE, None)
    \/ StageOk
    \/ PromoteRemoveOk
    \/ PromoteRenameOk
    \/ RecordUpdate
    \/ \E q \in Queries : PinOk(q)
    \/ \E q \in LookupQueries : Info(q)

SpecLookup == Init /\ [][NextLookup]_vars

-----------------------------------------------------------------------------
(* `tooler run <q> [--asset a]` (main.rs lines 356-516).  The commands of   *)
(* SpecRun follow one another within the update-check interval, so the     *)
(* sweep of line 395 finds no stale record and returns at line 696.  The   *)
(* shim and symlink of lines 490-494 live in the bin directory, which is   *)
(* not part of the state.                                                  *)

\* How far the clock counts in SpecRun.
MaxRunClock == 3

\* Lines 449-511: the record found is the one executed; last_accessed is
\* stamped on the record at the query's own key, if there is one, and the
\* registry saved.
RunFinish(q, info, installed) ==
    \E key \in {config_key(Parsed(q))} :
        /\ config' = IF key \in DOMAIN config_file
                     THEN [config_file EXCEPT ![key].last_accessed = clock + 1]
                     ELSE config_file
        /\ config_file' = config'
        /\ clock' = clock + 1
        /\ last_cmd' = [op |-> "run", query |-> q, result |-> "ok",
                        executed |-> info, at |-> clock + 1,
                        installed |-> installed]

\* Lines 361-422: the lookup; a hit without --asset is executed, a miss of a
\* bare name ends the command, anything else calls install_or_update_tool.
\* Lines 399-414: what run does with the lookup's answer: execute the
\* record, exit with code 1, or call install_or_update_tool.
run_branch_without_author_test(tool_info, id, asset) ==
    IF tool_info.some /\ ~asset.some THEN "execute" ELSE "install"
run_branch(tool_info, id, asset) ==
    IF tool_info.some /\ ~asset.some THEN "execute"
    ELSE IF ~tool_info.some /\ id.author = "unknown" THEN "exit 1"
    ELSE "install"

RunStart(q, ov) ==
    /\ spc = "registry"
    /\ pc = "idle"
    /\ ~run.active
    /\ clock < MaxRunClock
    /\ \E id \in {Parsed(q)} :
          IF ~id.ok
          THEN /\ last_cmd' = [op |-> "run", query |-> q, result |-> "error",
                               phase |-> "parse"]
               /\ UNCHANGED <<hostVars, selectVars, cmdVars, config,
                              config_file, fs, staging, pc, inv, clock,
                              published, pin_note>>
          ELSE \E tool_info \in find_by_id(config, id) :
               IF run_branch(tool_info, id, ov) = "execute"
               THEN /\ RunFinish(q, tool_info.val, FALSE)
                    /\ UNCHANGED <<hostVars, selectVars, cmdVars, fs, staging,
                                   pc, inv, published, pin_note>>
               ELSE IF run_branch(tool_info, id, ov) = "exit 1"
               THEN /\ last_cmd' = [op |-> "run", query |-> q,
                                    result |-> "error", phase |-> "lookup"]
                    /\ UNCHANGED <<hostVars, selectVars, cmdVars, config,
                                   config_file, fs, staging, pc, inv, clock,
                                   published, pin_note>>
               ELSE /\ InstallBegin(q, FALSE, ov, MaxRunClock)
                    /\ run' = [active |-> TRUE, query |-> q]
                    /\ UNCHANGED <<settings, doc, env>>

\* Lines 425-448 and on: install_or_update_tool has returned.  On Ok the
\* registry is loaded again and the lookup repeated; on Err (or when the
\* process was killed) the command ends.
RunResume ==
    /\ spc = "registry"
    /\ pc = "idle"
    /\ run.active
    /\ IF last_cmd.op = "install" /\ last_cmd.result = "ok"
       THEN \E tool_info \in find_tool_executable(config_file, run.query) :
               IF tool_info.some
               THEN RunFinish(run.query, tool_info.val, TRUE)
               ELSE /\ last_cmd' = [op |-> "run", query |-> run.query,
                                    result |-> "error", phase |-> "lookup"]
                    /\ UNCHANGED <<config, config_file, clock>>
       ELSE /\ last_cmd' = [op |-> "run", query |-> run.query,
                            result |-> "error", phase |-> "install"]
            /\ UNCHANGED <<config, config_file, clock>>
    /\ run' = NoRun
    /\ UNCHANGED <<hostVars, selectVars, fs, staging, pc, inv, published,
                   pin_note, settings, doc, env>>

NextRun ==
    \/ PublishRelease
    \/ \E q \in LookupQueries, ov \in AssetOverrides : RunStart(q, ov)
    \/ StageOk
    \/ StageFail
    \/ PromoteRemoveOk
    \/ PromoteRemoveFail
    \/ PromoteRenameOk
    \/ PromoteRenameFail
    \/ RecordUpdate
    \/ RecordFail
    \/ Interrupt
    \/ RunResume

SpecRun == Init /\ [][NextRun]_vars

-----------------------------------------------------------------------------
(* The update check of `tooler run` (main.rs check_for_updates, lines      *)
(* 657-756, called at line 395 for an unpinned query).  In SpecSweep the   *)
(* clock counts days: an install takes one, and days pass between          *)
(* commands.                                                               *)

\* settings.update_check_days in SpecSweep.
CheckDays == 1
\* How many days SpecSweep follows.
MaxDays == 4

\* Lines 672-692: the keys of the records to check.
stale_tools(tools, now, days) ==
    {k \in DOMAIN tools :
        /\ ~tools[k].pinned
        /\ now - tools[k].last_accessed > days}

\* Lines 703-723: the keys pushed to keys_to_update, given the records whose
\* release was fetched; a failed fetch is logged and the loop goes on.
keys_to_update_abort(stale, fetched) == IF fetched = stale THEN fetched ELSE {}
keys_to_update(stale, fetched) == fetched

\* Lines 704-716: the checked records whose latest release is another
\* version than the recorded one.
update_needed(tools, keys, latest_tag) ==
    {k \in keys : trim_start_matches(latest_tag, "v")
                      # trim_start_matches(tools[k].version, "v")}

\* Line 732, install_or_update_tool(config, name, repo, Some(tag), true,
\* None) returning Ok: the release `tag` of `repo` is resolved, staged,
\* promoted and recorded at the identifier's key, and the registry saved.
\* st is the registry in memory (tools), the registry file (file) and the
\* storage tree (fs).
auto_update(st, repo, tag, now) ==
    UNION {
      UNION {
        IF rs = {} THEN {st}
        ELSE UNION {
               {[tools |-> MapPut(st.tools, r.tool_key,
                             new_tool_info(id, r.actual_version,
                                 Join(r.tool_version_dir, sg.exec),
                                 sg.install_type, now)),
                 file |-> MapPut(st.tools, r.tool_key,
                             new_tool_info(id, r.actual_version,
                                 Join(r.tool_version_dir, sg.exec),
                                 sg.install_type, now)),
                 fs |-> MapPut(st.fs, r.tool_version_dir, sg.files)]
                : sg \in {stage(r.asset, tool_name(id))}}
               : r \in rs}
        : rs \in {{x \in resolve(id, None) : x.ok}}}
      : id \in {Parsed(repo \o "@" \o tag)}}

\* Lines 730-736: the auto-updates one after the other; those of the keys
\* in oks succeed, the others fail before anything is recorded.
RECURSIVE auto_update_all(_, _, _, _, _, _)
auto_update_all(st, todo, oks, repo_of, tag, now) ==
    IF todo = {} THEN st
    ELSE \* the order of stale_tools: updates of different repositories
         \* write different keys and directories
         CHOOSE out \in
             {auto_update_all(IF k \in oks
                              THEN CHOOSE n \in auto_update(st, repo_of[k],
                                                            tag, now) : TRUE
                              ELSE st,
                              todo \ {k}, oks, repo_of, tag, now)
              : k \in {CHOOSE x \in todo : TRUE}} : TRUE

\* Lines 738-743.
refresh(tools, keys, now) ==
    [k \in DOMAIN tools |->
        IF k \in keys THEN [tools[k] EXCEPT !.last_accessed = now]
        ELSE tools[k]]

\* check_for_updates as a whole, from the registry as loaded: what it
\* leaves in memory, in the file and in the storage tree.  fetched: the
\* stale records whose get_gh_release_info succeeds; oks: the records whose
\* auto-update succeeds.
check_for_updates_unless_negative(tools, file, files, now, fetched, oks) ==
    UNION {
      IF settings.update_check_days < 0 \/ stale = {}
      THEN {[tools |-> tools, file |-> file, fs |-> files, asked |-> {}]}
      ELSE
      UNION {
        UNION {
          {[tools |-> refresh(st.tools, keys, now),
            file |-> IF ~settings.auto_update /\ need # {}
                     THEN refresh(st.tools, keys, now) ELSE st.file,
            fs |-> st.fs, asked |-> stale]
           : st \in {IF settings.auto_update
                     THEN auto_update_all(
                              [tools |-> tools, file |-> file, fs |-> files],
                              need, oks, [k \in need |-> tools[k].repo],
                              AllTags[published], now)
                     ELSE [tools |-> tools, file |-> file, fs |-> files]}}
          : need \in {update_needed(tools, keys, AllTags[published])}}
        : keys \in {keys_to_update(stale, fetched)}}
      : stale \in {stale_tools(tools, now, settings.update_check_days)}}
check_for_updates(tools, file, files, now, fetched, oks) ==
    UNION {
      IF settings.update_check_days <= 0 \/ stale = {}
      THEN {[tools |-> tools, file |-> file, fs |-> files, asked |-> {}]}
      ELSE
      UNION {
        UNION {
          {[tools |-> refresh(st.tools, keys, now),
            file |-> IF ~settings.auto_update /\ need # {}
                     THEN refresh(st.tools, keys, now) ELSE st.file,
            fs |-> st.fs, asked |-> stale]
           : st \in {IF settings.auto_update
                     THEN auto_update_all(
                              [tools |-> tools, file |-> file, fs |-> files],
                              need, oks, [k \in need |-> tools[k].repo],
                              AllTags[published], now)
                     ELSE [tools |-> tools, file |-> file, fs |-> files]}}
          : need \in {update_needed(tools, keys, AllTags[published])}}
        : keys \in {keys_to_update(stale, fetched)}}
      : stale \in {stale_tools(tools, now, settings.update_check_days)}}

\* The update-check intervals the user configures: a positive one, and
\* zero or a negative one to switch the sweep off.
CheckIntervals == {CheckDays, 0, -1}

InitSweep ==
    /\ raw_os = "linux"
    /\ raw_arch \in RegistryHostArch
    /\ is_musl = FALSE
    /\ assets = <<>>
    /\ selected = None
    /\ spc = "registry"
    /\ config = EmptyMap
    /\ config_file = EmptyMap
    /\ fs = EmptyMap
    /\ staging = Absent
    /\ pc = "idle"
    /\ inv = NoInv
    /\ clock = 0
    /\ published = 1
    /\ last_cmd = NoCmd
    /\ pin_note = None
    /\ run = NoRun
    /\ settings \in {[DefaultSettings EXCEPT !.update_check_days = d,
                                              !.auto_update = b]
                     : d \in CheckIntervals, b \in BOOLEAN}
    /\ doc = NoFile
    /\ env = NoEnv

\* A day passes between two commands.
DayPasses ==
    /\ spc = "registry"
    /\ pc = "idle"
    /\ clock < MaxDays
    /\ clock' = clock + 1
    /\ UNCHANGED <<hostVars, selectVars, cmdVars, config, config_file, fs,
                   staging, pc, inv, published, last_cmd, pin_note>>

\* `tooler run <q>` of an installed tool, q unpinned: the update check
\* (line 395), the lookup (397), the stamp and save (495-503), the
\* execution (505-511).
RunSweep(q) ==
    /\ spc = "registry"
    /\ pc = "idle"
    /\ \E id \in {Parsed(q)} :
       \E stale \in {stale_tools(config, clock, settings.update_check_days)} :
       \E fetched \in SUBSET stale :
       \E oks \in SUBSET update_needed(config, fetched, AllTags[published]) :
       \E sw \in check_for_updates(config, config_file, fs, clock,
                                   fetched, oks) :
       \E tool_info \in find_by_id(sw.tools, id) :
       \E key \in {config_key(id)} :
          /\ ~is_pinned(id)
          /\ tool_info.some
          /\ config_file' =
                 IF key \in DOMAIN sw.tools
                 THEN [sw.tools EXCEPT ![key].last_accessed = clock]
                 ELSE sw.file
          /\ config' = config_file'
          /\ fs' = sw.fs
          /\ last_cmd' = [op |-> "sweep", query |-> q, result |-> "ok",
                          now |-> clock, pre |-> config,
                          stale |-> sw.asked, pre_file |-> config_file,
                          pre_fs |-> fs,
                          fetched |-> fetched \cap sw.asked,
                          oks |-> oks \cap sw.asked,
                          swept |-> sw.tools, swept_file |-> sw.file,
                          executed |-> tool_info.val]
    /\ UNCHANGED <<hostVars, selectVars, cmdVars, staging, pc, inv, clock,
                   published, pin_note>>

NextSweep ==
    \/ PublishRelease
    \/ DayPasses
    \/ \E q \in SweepQueries : InstallStart(q, FALSE, None)
    \/ StageOk
    \/ PromoteRemoveOk
    \/ PromoteRenameOk
    \/ RecordUpdate
    \/ \E q \in SweepQueries : RunSweep(q)

SpecSweep == InitSweep /\ [][NextSweep]_vars

-----------------------------------------------------------------------------
(* Loading and saving the registry file (config.rs).  A document is the    *)
(* file as JSON: the tools object, whose records may lack `pinned`, the    *)
(* aliases object, which may be missing, and the settings object, which    *)
(* may lack fields or be missing.  Documents that are not JSON are left    *)
(* out.                                                                    *)

\* A record as save_tool_configs writes it, and the settings of a user who
\* changed every one of them.
DocRecord ==
    new_tool_info(Parsed("owner/tool"), "v1.2.3",
                  "tools/github/owner__tool__arm64/v1.2.3/tool", "binary", 0)
DocSettings ==
    [update_check_days |-> 30, auto_shim |-> FALSE, auto_update |-> FALSE,
     bin_dir |-> "/home/u/bin", parse_release_body |-> FALSE]

\* The registry files the commands start from.
Docs ==
    {NoFile} \cup
    {[exists |-> TRUE, tools |-> t, aliases |-> al, settings |-> st] :
        al \in {None, Some([a \in {"t"} |-> "owner/tool"])},
        t \in {EmptyMap,
               [k \in {"owner/tool@latest"} |-> DocRecord],
               [k \in {"owner/tool@latest"} |->
                   [f \in DOMAIN DocRecord \ {"pinned"} |-> DocRecord[f]]]},
        st \in {None} \cup
               {Some([f \in fields |-> DocSettings[f]]) :
                   fields \in {{}, {"update_check_days", "bin_dir"},
                               DOMAIN DocSettings}}}

\* The environments the commands run in.
Envs ==
    {[TOOLER_UPDATE_CHECK_DAYS |-> d, TOOLER_AUTO_SHIM |-> a,
      TOOLER_SHIM_DIR |-> b] :
        d \in {None, Some("7"), Some("x")},
        a \in {None, Some("1")},
        b \in {None, Some("/opt/bin")}}

\* str::parse::<i32> (values within the range of i32)
parse_i32(s) ==
    IF IsNumber(s) THEN Some(parse_u64(s))
    ELSE IF Len(s) > 1 /\ Char(s, 1) = "+" /\ IsNumber(Tail(s))
    THEN Some(parse_u64(Tail(s)))
    ELSE IF Len(s) > 1 /\ Char(s, 1) = "-" /\ IsNumber(Tail(s))
    THEN Some(0 - parse_u64(Tail(s)))
    ELSE None

\* config.rs lines 116-138; last_was_separator starts true
RECURSIVE normalize_key(_, _)
normalize_key(s, last_was_separator) ==
    IF Len(s) = 0 THEN ""
    ELSE IF Head(s) \in {"-", "_"}
    THEN (IF last_was_separator THEN "" ELSE "_") \o normalize_key(Tail(s), TRUE)
    ELSE IF LowerChar(Head(s)) # Head(s)  \* is_ascii_uppercase
    THEN (IF last_was_separator THEN "" ELSE "_")
             \o LowerChar(Head(s)) \o normalize_key(Tail(s), FALSE)
    ELSE Head(s) \o normalize_key(Tail(s), FALSE)

\* serde_json::from_str::<ToolerConfig> on a JSON document (types.rs lines
\* 14-31, 37-49, 86-92): `tools` and `settings` are required, `pinned`,
\* `aliases` and every field of the settings have a default.
from_str(d) ==
    IF ~d.settings.some THEN [ok |-> FALSE, is_data |-> TRUE]
    ELSE [ok |-> TRUE,
          val |-> [tools |->
                      [k \in DOMAIN d.tools |->
                          [f \in DOMAIN d.tools[k] \cup {"pinned"} |->
                              IF f \in DOMAIN d.tools[k] THEN d.tools[k][f]
                              ELSE FALSE]],
                   aliases |-> IF d.aliases.some THEN d.aliases.val
                               ELSE EmptyMap,
                   settings |->
                      [f \in DOMAIN DefaultSettings |->
                          IF f \in DOMAIN d.settings.val
                          THEN d.settings.val[f]
                          ELSE DefaultSettings[f]]]]

\* load_tool_configs up to the environment, lines 46-79.
parse_config(d) ==
    IF ~d.exists
    THEN [tools |-> EmptyMap, aliases |-> EmptyMap,
          settings |-> DefaultSettings]
    ELSE IF from_str(d).ok THEN from_str(d).val
    ELSE \* e.is_data(): the document is parsed a second time, as the same type
         IF from_str(d).ok
         THEN [tools |-> EmptyMap, aliases |-> EmptyMap,
               settings |->
                  [DefaultSettings EXCEPT
                     !.update_check_days =
                         IF from_str(d).val.settings.update_check_days # 0
                         THEN from_str(d).val.settings.update_check_days
                         ELSE @,
                     !.bin_dir =
                         IF from_str(d).val.settings.bin_dir # ""
                         THEN from_str(d).val.settings.bin_dir
                         ELSE @,
                     !.auto_shim = from_str(d).val.settings.auto_shim]]
         ELSE [tools |-> EmptyMap, aliases |-> EmptyMap,
               settings |-> DefaultSettings]

\* load_tool_configs, lines 45-97.
load_tool_configs(d, e) ==
    [parse_config(d) EXCEPT
       !.settings =
          [@ EXCEPT
             !.update_check_days =
                 IF /\ e.TOOLER_UPDATE_CHECK_DAYS.some
                    /\ parse_i32(e.TOOLER_UPDATE_CHECK_DAYS.val).some
                 THEN parse_i32(e.TOOLER_UPDATE_CHECK_DAYS.val).val
                 ELSE @,
             !.auto_shim =
                 IF e.TOOLER_AUTO_SHIM.some
                 THEN \/ to_lowercase(e.TOOLER_AUTO_SHIM.val) = "true"
                      \/ e.TOOLER_AUTO_SHIM.val = "1"
                 ELSE @,
             !.bin_dir =
                 IF e.TOOLER_SHIM_DIR.some THEN e.TOOLER_SHIM_DIR.val ELSE @]]

\* save_tool_configs, lines 99-114: every field of the config is written.
save_tool_configs_without_aliases(cfg) ==
    [exists |-> TRUE, tools |-> cfg.tools, aliases |-> None,
     settings |-> Some(cfg.settings)]
save_tool_configs(cfg) ==
    [exists |-> TRUE, tools |-> cfg.tools, aliases |-> Some(cfg.aliases),
     settings |-> Some(cfg.settings)]

InitConfig ==
    /\ raw_os = "linux"
    /\ raw_arch \in RegistryHostArch
    /\ is_musl = FALSE
    /\ assets = <<>>
    /\ selected = None
    /\ spc = "config"
    /\ config = EmptyMap
    /\ config_file = EmptyMap
    /\ fs = EmptyMap
    /\ staging = Absent
    /\ pc = "idle"
    /\ inv = NoInv
    /\ clock = 0
    /\ published = 1
    /\ last_cmd = NoCmd
    /\ pin_note = None
    /\ run = NoRun
    /\ settings = DefaultSettings
    /\ doc \in Docs
    /\ env \in Envs

\* What a command of SpecConfig leaves behind: cfg is the config at its
\* end, saved tells whether it called save_tool_configs.  The clock
\* advances with every command.
ConfigDone(op, key, cfg, saved) ==
    /\ config' = cfg.tools
    /\ settings' = cfg.settings
    /\ doc' = IF saved THEN save_tool_configs(cfg) ELSE doc
    /\ config_file' = parse_config(doc').tools
    /\ last_cmd' = [op |-> op, key |-> key, saved |-> saved, written |-> cfg,
                    before |-> doc, parsed |-> parse_config(doc),
                    loaded |-> load_tool_configs(doc, env)]
    /\ clock' = clock + 1
    /\ UNCHANGED <<hostVars, selectVars, fs, staging, pc, inv, published,
                   pin_note, run, env>>

\* `tooler config set <key> <value>`: main.rs line 31 and lines 258-305.
ConfigSet(key, value_str) ==
    /\ spc = "config"
    /\ clock < MaxClock
    /\ \E cfg \in {load_tool_configs(doc, env)} :
       \E normalized_key \in {normalize_key(key, TRUE)} :
          IF normalized_key = "update_check_days"
          THEN IF parse_i32(value_str).some
               THEN ConfigDone("config_set", normalized_key,
                        [cfg EXCEPT !.settings.update_check_days =
                                        parse_i32(value_str).val], TRUE)
               ELSE ConfigDone("config_set", normalized_key, cfg, FALSE)
          ELSE IF normalized_key = "auto_shim"
          THEN ConfigDone("config_set", normalized_key,
                   [cfg EXCEPT !.settings.auto_shim =
                                   \/ to_lowercase(value_str) = "true"
                                   \/ value_str = "1"], TRUE)
          ELSE IF normalized_key = "auto_update"
          THEN ConfigDone("config_set", normalized_key,
                   [cfg EXCEPT !.settings.auto_update =
                                   \/ to_lowercase(value_str) = "true"
                                   \/ value_str = "1"], TRUE)
          ELSE IF normalized_key = "bin_dir"
          THEN ConfigDone("config_set", normalized_key,
                   [cfg EXCEPT !.settings.bin_dir = value_str], TRUE)
          ELSE ConfigDone("config_set", normalized_key, cfg, FALSE)

\* `tooler run <q>` of an installed tool while no record is stale: main.rs
\* line 31, the update check finding nothing (lines 394-396, 694-697), the
\* lookup (397), the stamp and the save (495-503).
RunInstalled(q) ==
    /\ spc = "config"
    /\ clock < MaxClock
    /\ \E cfg \in {load_tool_configs(doc, env)} :
       \E id \in {Parsed(q)} :
       \E tool_info \in find_by_id(cfg.tools, id) :
       \E key \in {config_key(id)} :
          /\ id.ok
          /\ \/ cfg.settings.update_check_days <= 0
             \/ stale_tools(cfg.tools, clock + 1,
                            cfg.settings.update_check_days) = {}
          /\ tool_info.some
          /\ IF key \in DOMAIN cfg.tools
             THEN ConfigDone("run", "",
                      [cfg EXCEPT !.tools[key].last_accessed = clock + 1],
                      TRUE)
             ELSE ConfigDone("run", "", cfg, FALSE)

NextConfig ==
    \/ \E key \in {"update-check-days", "autoShim", "auto_update", "bin-dir",
                   "colour"},
          value_str \in {"14", "true"} :
          ConfigSet(key, value_str)
    \/ \E q \in {"owner/tool", "tool"} : RunInstalled(q)

SpecConfig == InitConfig /\ [][NextConfig]_vars

-----------------------------------------------------------------------------
(* The functions of install.rs and tool_id.rs that compute without the     *)
(* registry: version_matches, find_highest_version and                     *)
(* ToolIdentifier::parse.  A call is drawn with its arguments, then        *)
(* applied; last_cmd holds the call and, once applied, what it returned.   *)

\* The calls: requested and existing versions, candidate records (up to
\* three, by version), and what a user types as <tool>.
PureCalls ==
    {[op |-> "version_matches", requested |-> r, existing |-> e,
      done |-> FALSE] :
        r \in {"1", "2", "0", "1.2", "v1.2", "0.2", "1.2.3", "v1.2.3", "1.2.4",
               "master"},
        e \in {"1.2.3", "1.2.7", "1.2.0", "v1.2.0", "1.1.9", "1.3.0", "1.5.0",
               "2.0.0", "0.2.1", "0.3.0", "0.9.0", "1.2.4", "master", "main"}}
    \cup
    {[op |-> "find_highest_version",
      candidates |-> {[version |-> v, executable_path |-> "/test/" \o v] :
                         v \in vs},
      done |-> FALSE] :
        vs \in {x \in SUBSET {"1.0.0", "2.0.0", "1.5.0", "1.9.0", "v1.9.0",
                              "1.10.0", "main"} : Cardinality(x) <= 3}}
    \cup
    {[op |-> "parse", query |-> q, done |-> FALSE] :
        q \in {"", "-v", "tool", "tool@2", "owner/tool", "a/b/c",
               "owner/tool@v1.2.3", "owner/tool@1.2.3", "owner/tool@default",
               "owner/tool@", "unknown/tool@1.0", "Owner/Tool@main",
               "https://h.io/d/tool.tar.gz", "https://h.io/d/tool-v1.2.3.tgz",
               "http://h.io/d/tool-1.2.3/tool", "https://h.io/d/tool.zip@1.2.3",
               "https://h.io/d/tool.zip@v1.2.3", "https://h.io/d/tool@v2",
               "https://h.io/d/v1.0.0/tool.zip@2.0.0"}}

-----------------------------------------------------------------------------
(* Recovery Scanner: recover(query, tools_root), after the specification's *)
(* section 4.6 (try_recover_tool is exported by install/mod.rs; its body   *)
(* is not part of the sources).  The tools root is a set of directories    *)
(* [source, name, versions], versions a set of [name, files].              *)

\* str::split on a separator of several characters.
RECURSIVE split_on(_, _)
split_on(s, sep) ==
    LET hits == {i \in 1..(Len(s) - Len(sep) + 1) :
                    SubSeq(s, i, i + Len(sep) - 1) = sep}
    IN  IF hits = {} THEN <<s>>
        ELSE LET i == CHOOSE k \in hits : \A j \in hits : k <= j
             IN  <<SubSeq(s, 1, i - 1)>>
                    \o split_on(SubSeq(s, i + Len(sep), Len(s)), sep)

\* Step 2: a directory name read as (author, repo, arch), (author, repo) or
\* (repo), by the number of its `__`-separated parts.
decode_dir(name) ==
    LET parts == split_on(name, "__")
    IN  IF Len(parts) = 1
        THEN [ok |-> TRUE, author |-> None, repo |-> parts[1], arch |-> None]
        ELSE IF Len(parts) = 2
        THEN [ok |-> TRUE, author |-> Some(parts[1]), repo |-> parts[2],
              arch |-> None]
        ELSE IF Len(parts) = 3
        THEN [ok |-> TRUE, author |-> Some(parts[1]), repo |-> parts[2],
              arch |-> Some(parts[3])]
        ELSE [ok |-> FALSE]

\* a's characters occur in b in a's order.
RECURSIVE is_subsequence(_, _)
is_subsequence(a, b) ==
    IF a = "" THEN TRUE
    ELSE IF b = "" THEN FALSE
    ELSE IF Char(a, 1) = Char(b, 1) THEN is_subsequence(Tail(a), Tail(b))
    ELSE is_subsequence(a, Tail(b))

\* A scanner that takes a directory whose repo merely resembles the query.
is_candidate_fuzzy(dir, id, arch) ==
    LET d == decode_dir(dir.name)
    IN  /\ d.ok
        /\ \/ is_subsequence(to_lowercase(tool_name(id)), to_lowercase(d.repo))
           \/ d.author.some /\ d.author.val \o "/" \o d.repo = full_repo(id)
        /\ d.arch.some => d.arch.val = arch

\* Step 3: the directory is a recovery candidate for the identifier.
is_candidate(dir, id, arch) ==
    LET d == decode_dir(dir.name)
    IN  /\ d.ok
        /\ \/ to_lowercase(d.repo) = to_lowercase(tool_name(id))
           \/ d.author.some /\ d.author.val \o "/" \o d.repo = full_repo(id)
        /\ d.arch.some => d.arch.val = arch

\* Step 4's loose pattern: digits, a dot, digits, anywhere in the name.
looks_like_version(n) ==
    \E i \in 1..Len(n) :
        /\ digits_end(n, i) >= i
        /\ Char(n, digits_end(n, i) + 1) = "."
        /\ digits_end(n, digits_end(n, i) + 2) >= digits_end(n, i) + 2

\* Steps 4 to 6 in one candidate directory: the version directories that
\* look like versions (all of them when none does), the highest by parsed
\* semantic version (0.0.0 when it does not parse), the executable in it and
\* the record synthesized from it; {} when nothing in it can be recovered.
recover_from(dir) ==
    LET d == decode_dir(dir.name)
        shaped == {v \in dir.versions : looks_like_version(v.name)}
        vdirs == IF shaped = {} THEN dir.versions ELSE shaped
        ver(v) == LET p == Version_parse(trim_start_matches(v.name, "v"))
                  IN  IF p.ok THEN p
                      ELSE [ok |-> TRUE, major |-> 0, minor |-> 0, patch |-> 0]
        highest == {v \in vdirs : \A u \in vdirs : ~Version_lt(ver(v), ver(u))}
        named(v) == {f \in v.files : to_lowercase(f) = to_lowercase(d.repo)}
        execs(v) == IF named(v) # {} THEN named(v) ELSE v.files \ {".venv"}
        root == IF dir.source = "" THEN "tools/"
                ELSE "tools/" \o dir.source \o "/"
    IN  UNION {{[tool_name |-> d.repo,
                 repo |-> IF d.author.some THEN d.author.val \o "/" \o d.repo
                          ELSE d.repo,
                 version |-> v.name,
                 executable_path |-> root \o dir.name \o "/" \o v.name
                                          \o "/" \o f,
                 install_type |-> IF ".venv" \in v.files THEN "python-venv"
                                  ELSE IF Cardinality(v.files) <= 3
                                  THEN "binary" ELSE "archive",
                 pinned |-> FALSE] : f \in execs(v)} : v \in highest}

\* recover: the record of some candidate directory, in whatever order the
\* directories are read; None when no candidate yields one.
recover(query, tools_root, arch) ==
    LET id == parse(query)
        found == IF ~id.ok THEN {}
                 ELSE UNION {recover_from(dir) :
                                dir \in {x \in tools_root :
                                            is_candidate(x, id, arch)}}
    IN  IF found = {} THEN {None} ELSE {Some(t) : t \in found}

\* The calls of recover: a query and up to two directories under the root.
RecoverCalls ==
    {[op |-> "recover", query |-> q, tools_root |-> ds, done |-> FALSE] :
        q \in {"mkb", "minikube", "Minikube", "kubernetes/minikube", "mytool",
               "myauthor/mytool", "other/mytool", "-x"},
        ds \in {x \in SUBSET {
                   [source |-> "github", name |-> "kubernetes__minikube__arm64",
                    versions |-> {[name |-> "v1.31.0", files |-> {"minikube"}]}],
                   [source |-> "github", name |-> "kubernetes__minikube__amd64",
                    versions |-> {[name |-> "v1.32.0", files |-> {"minikube"}]}],
                   [source |-> "github", name |-> "myauthor__mytool__arm64",
                    versions |-> {[name |-> "v1.9.0", files |-> {"mytool"}],
                                  [name |-> "v1.10.0",
                                   files |-> {"mytool", "LICENSE", "README.md",
                                              "completions"}]}],
                   [source |-> "url", name |-> "direct__mytool",
                    versions |-> {[name |-> "v0.9.0",
                                   files |-> {".venv", "mytool"}]}],
                   [source |-> "", name |-> "mytool",
                    versions |-> {[name |-> "main", files |-> {"mytool.sh"}]}],
                   [source |-> "github", name |-> "other__mytool__arm64",
                    versions |-> {}]} : Cardinality(x) <= 2}}

-----------------------------------------------------------------------------
(* download.rs find_executable_in_extracted.  The extracted tree is the    *)
(* sequence of its regular files in the order WalkDir yields them, each a  *)
(* path relative to extract_dir.                                           *)

\* str::split on the characters that are not alphanumeric (lowercase text).
RECURSIVE alnum_parts(_, _)
alnum_parts(s, part) ==
    IF s = "" THEN <<part>>
    ELSE IF IsDigit(Char(s, 1)) \/ contains_rec(LowerLetters, Char(s, 1))
    THEN alnum_parts(Tail(s), part \o Char(s, 1))
    ELSE <<part>> \o alnum_parts(Tail(s), "")

\* Lines 255-268, for a regular file: by the extension alone.
is_executable(path, os_system) ==
    LET n == file_name(path)
        i == rfind_char(n, ".")
        ext == IF i <= 1 THEN "" ELSE to_lowercase(SubSeq(n, i + 1, Len(n)))
    IN  IF os_system = "windows" THEN ext \in {"exe", "cmd", "bat"}
        ELSE ext \notin {"dll", "so", "dylib"}

\* Lines 201-234: the score of an executable file.
file_score(path, target_names, asset_parts, tool_name_lower) ==
    LET name == to_lowercase(file_name(path))
        stem == to_lowercase(file_stem(path))
        components == split(path, "/")
    IN  10
        + (IF "bin" \in Range(components) THEN 20 ELSE 0)
        + (IF name \in target_names THEN 100
           ELSE IF stem \in target_names THEN 90 ELSE 0)
        + (IF name \in asset_parts THEN 80
           ELSE IF stem \in asset_parts THEN 70 ELSE 0)
        + (IF contains_rec(name, tool_name_lower) THEN 30 ELSE 0)
        - 5 * Len(components)

\* Lines 154-253: the candidates are the executable files whose score is
\* positive; the stable sort by descending score puts the first-encountered
\* of the best ones in front.
find_executable_in_extracted(files, tool, repo_full_name, os_system, archive_name) ==
    LET tool_name_lower == to_lowercase(tool)
        target_names ==
            (IF os_system = "windows"
             THEN {tool_name_lower \o ".exe", tool_name_lower \o ".cmd",
                   tool_name_lower \o ".bat", tool_name_lower}
             ELSE {tool_name_lower, tool_name_lower \o ".sh"})
            \cup {to_lowercase(p) : p \in Range(split(repo_full_name, "/"))}
        asset_stem == split(to_lowercase(archive_name), ".")[1]
        asset_parts ==
            {p \in Range(alnum_parts(asset_stem, "")) :
                Len(p) > 1 /\ ~IsNumber(p)}
        score(i) == file_score(files[i], target_names, asset_parts,
                               tool_name_lower)
        candidates == {i \in DOMAIN files :
                          is_executable(files[i], os_system) /\ score(i) > 0}
    IN  IF candidates = {} THEN None
        ELSE Some(files[CHOOSE i \in candidates :
                           /\ \A j \in candidates : score(j) <= score(i)
                           /\ \A j \in candidates :
                                 j < i => score(j) < score(i)])

\* The calls of extract_archive's finder: the tree of an archive of
\* owner/tool, up to three files in walk order.
ExtractedFiles ==
    {"tool", "bin/tool", "tool-1.0/tool", "README.md", "helper", "pkg/helper",
     "pkg/bin/helper", "lib/libtool.so", "linux"}

ExecCalls ==
    {[op |-> "find_executable", files |-> fs3, os_system |-> os,
      done |-> FALSE] :
        fs3 \in {<<>>} \cup {<<a>> : a \in ExtractedFiles}
                \cup {p \in ExtractedFiles \X ExtractedFiles : p[1] # p[2]}
                \cup {<<p[1], p[2], "README.md">> :
                         p \in {q \in ExtractedFiles \X ExtractedFiles :
                                   /\ q[1] # q[2]
                                   /\ "README.md" \notin {q[1], q[2]}}},
        os \in {"linux"}}

InitPure ==
    /\ raw_os = "linux"
    /\ raw_arch \in RegistryHostArch
    /\ is_musl = FALSE
    /\ assets = <<>>
    /\ selected = None
    /\ spc = "pure"
    /\ config = EmptyMap
    /\ config_file = EmptyMap
    /\ fs = EmptyMap
    /\ staging = Absent
    /\ pc = "idle"
    /\ inv = NoInv
    /\ clock = 0
    /\ published = 1
    /\ last_cmd \in PureCalls \cup RecoverCalls \cup ExecCalls
    /\ pin_note = None
    /\ run = NoRun
    /\ settings = DefaultSettings
    /\ doc = NoFile
    /\ env = NoEnv

\* install.rs lines 628-665
ApplyVersionMatches ==
    /\ spc = "pure"
    /\ last_cmd.op = "version_matches"
    /\ ~last_cmd.done
    /\ last_cmd' = [op |-> "version_matches",
                    requested |-> last_cmd.requested,
                    existing |-> last_cmd.existing, done |-> TRUE,
                    result |-> version_matches(last_cmd.requested,
                                               last_cmd.existing)]
    /\ UNCHANGED <<hostVars, selectVars, cmdVars, config, config_file, fs,
                   staging, pc, inv, clock, published, pin_note>>

\* install.rs lines 667-688
ApplyFindHighestVersion ==
    /\ spc = "pure"
    /\ last_cmd.op = "find_highest_version"
    /\ ~last_cmd.done
    /\ \E r \in find_highest_version(last_cmd.candidates) :
          last_cmd' = [op |-> "find_highest_version",
                       candidates |-> last_cmd.candidates, done |-> TRUE,
                       result |-> r]
    /\ UNCHANGED <<hostVars, selectVars, cmdVars, config, config_file, fs,
                   staging, pc, inv, clock, published, pin_note>>

\* tool_id.rs lines 21-109
ApplyParse ==
    /\ spc = "pure"
    /\ last_cmd.op = "parse"
    /\ ~last_cmd.done
    /\ last_cmd' = [op |-> "parse", query |-> last_cmd.query, done |-> TRUE,
                    id |-> parse(last_cmd.query)]
    /\ UNCHANGED <<hostVars, selectVars, cmdVars, config, config_file, fs,
                   staging, pc, inv, clock, published, pin_note>>

\* Section 4.6 of the specification, on the host's architecture.
ApplyRecover ==
    /\ spc = "pure"
    /\ last_cmd.op = "recover"
    /\ ~last_cmd.done
    /\ \E r \in recover(last_cmd.query, last_cmd.tools_root, system_arch) :
          last_cmd' = [op |-> "recover", query |-> last_cmd.query,
                       tools_root |-> last_cmd.tools_root, done |-> TRUE,
                       result |-> r]
    /\ UNCHANGED <<hostVars, selectVars, cmdVars, config, config_file, fs,
                   staging, pc, inv, clock, published, pin_note>>

\* download.rs lines 74-86: the finder on the tree extracted from
\* tool-linux-amd64.tar.gz for owner/tool.
ApplyFindExecutable ==
    /\ spc = "pure"
    /\ last_cmd.op = "find_executable"
    /\ ~last_cmd.done
    /\ last_cmd' = [op |-> "find_executable", files |-> last_cmd.files,
                    os_system |-> last_cmd.os_system, done |-> TRUE,
                    result |-> find_executable_in_extracted(
                                   last_cmd.files, "tool", "owner/tool",
                                   last_cmd.os_system,
                                   "tool-linux-amd64.tar.gz")]
    /\ UNCHANGED <<hostVars, selectVars, cmdVars, config, config_file, fs,
                   staging, pc, inv, clock, published, pin_note>>

NextPure ==
    \/ ApplyVersionMatches
    \/ ApplyFindHighestVersion
    \/ ApplyParse
    \/ ApplyRecover
    \/ ApplyFindExecutable

SpecPure == InitPure /\ [][NextPure]_vars

-----------------------------------------------------------------------------
(* The asset matcher as a state machine: a release's asset list is built   *)
(* one published asset at a time, then select runs on it.                  *)

InitSelect ==
    /\ raw_os \in HostOS
    /\ raw_arch \in HostArch
    /\ is_musl \in (IF raw_os = "linux" THEN BOOLEAN ELSE {FALSE})
    /\ assets = <<>>
    /\ selected = None
    /\ spc = "input"
    /\ config = EmptyMap
    /\ config_file = EmptyMap
    /\ fs = EmptyMap
    /\ staging = Absent
    /\ pc = "idle"
    /\ inv = NoInv
    /\ clock = 0
    /\ published = 1
    /\ last_cmd = NoCmd
    /\ pin_note = None
    /\ run = NoRun
    /\ settings = DefaultSettings
    /\ doc = NoFile
    /\ env = NoEnv

PublishAsset(a) ==
    /\ spc = "input"
    /\ Len(assets) < MaxAssets
    /\ a \notin Range(assets)
    /\ assets' = Append(assets, a)
    /\ UNCHANGED <<hostVars, registryVars, cmdVars, selected, spc>>

Select ==
    /\ spc = "input"
    /\ selected' = find_asset_for_platform(assets, system_os, system_arch, is_musl)
    /\ spc' = "done"
    /\ UNCHANGED <<hostVars, registryVars, cmdVars, assets>>

NextSelect ==
    \/ \E a \in AssetPool : PublishAsset(a)
    \/ Select

SpecSelect == InitSelect /\ [][NextSelect]_vars

-----------------------------------------------------------------------------
(* Properties of the asset matcher (checked under SpecSelect).             *)

\* The platform an asset of the pool was published for, by the OS and
\* architecture words its publisher put in the name.
PublishedFor(a) ==
    CASE a = "tool-linux-amd64.tar.gz"      -> [os |-> "linux",  arch |-> "amd64"]
      [] a = "tool-darwin-amd64.tar.gz"     -> [os |-> "darwin", arch |-> "amd64"]
      [] a = "tool-linux-arm64"             -> [os |-> "linux",  arch |-> "arm64"]
      [] a = "tool-linux-arm"               -> [os |-> "linux",  arch |-> "arm"]
      [] a = "tool-darwin-arm64.tar.gz"     -> [os |-> "darwin", arch |-> "arm64"]
      [] a = "tool-linux-arm64-musl.tar.gz" -> [os |-> "linux",  arch |-> "arm64"]
      [] a = "tool_linux_arm64.deb"         -> [os |-> "linux",  arch |-> "arm64"]
      [] a = "tool-linux-amd64"             -> [os |-> "linux",  arch |-> "amd64"]
      [] a = "tool-linux.tar.gz"            -> [os |-> "linux",  arch |-> "any"]
      [] OTHER                              -> [os |-> "any",    arch |-> "any"]

\* The canonical OS token of the host (linux | darwin | windows).
HostOsToken == IF raw_os = "macos" THEN "darwin" ELSE raw_os

\* The archive a publisher names after the platform (os, arch).
PlatformArchive(os, arch) == "tool-" \o os \o "-" \o arch \o ".tar.gz"

IsWheel(a) == ends_with_rec(lower_rec(a), ".whl")

\* C1: an asset list that holds an archive carrying the platform's OS token
\* and architecture token (and no other asset published for that platform)
\* makes select return that archive; on (linux, amd64) the list
\* tool-linux-amd64.tar.gz, tool-darwin-amd64.tar.gz, tool.sha256 yields
\* tool-linux-amd64.tar.gz.
C1_SelectReturnsPlatformArchive ==
    LET want == PlatformArchive(HostOsToken, system_arch)
    IN  (/\ spc = "done"
         /\ want \in Range(assets)
         /\ \A a \in Range(assets) \ {want} :
                PublishedFor(a) # [os |-> HostOsToken, arch |-> system_arch])
        => selected = Some(want)

\* C2: select never returns a non-wheel asset published for another OS or
\* another architecture than the host's.
C2_NoCrossPlatformAsset ==
    (spc = "done" /\ selected.some /\ ~IsWheel(selected.val))
        => /\ PublishedFor(selected.val).os = HostOsToken
           /\ PublishedFor(selected.val).arch = system_arch

\* C3: on an `arm` host select never returns an asset that matches only
\* through the `arm` alias while its name contains `arm64`; the list
\* {tool-linux-arm64, tool-linux-arm}, in either order, yields tool-linux-arm
\* on (linux, arm) and tool-linux-arm64 on (linux, arm64).
C3_ArmIsNotArm64 ==
    spc = "done" =>
        /\ (system_arch = "arm" /\ selected.some /\ ~IsWheel(selected.val))
              => ~(/\ contains_rec(lower_rec(selected.val), "arm64")
                   /\ ~contains_rec(lower_rec(selected.val), "armv7"))
        /\ (/\ Range(assets) = {"tool-linux-arm64", "tool-linux-arm"}
            /\ raw_os = "linux")
              => /\ system_arch = "arm" => selected = Some("tool-linux-arm")
                 /\ system_arch = "arm64" => selected = Some("tool-linux-arm64")

C3_Witness ==
    /\ spc = "done"
    /\ raw_os = "linux"
    /\ system_arch = "arm"
    /\ assets = <<"tool-linux-arm64", "tool-linux-arm">>
    /\ selected = Some("tool-linux-arm")

-----------------------------------------------------------------------------
(* Properties of the registry, install and pin (checked under Spec).       *)

\* The part of a registry key after `<repo>@`.
KeyVersionPart(k, rec) == SubSeq(k, Len(rec.repo) + 2, Len(k))

\* s with its leading `v` characters removed.
RECURSIVE WithoutLeadingVs(_)
WithoutLeadingVs(s) ==
    IF Len(s) > 0 /\ SubSeq(s, 1, 1) = "v" THEN WithoutLeadingVs(Tail(s))
    ELSE s

\* C4 (as stated): after any sequence of install/update, pin and remove,
\* every key of the registry's tools map equals `<repo>@<version>` built from
\* the repo and version fields of the record stored under that key.
C4_KeyIsRepoAtVersion ==
    \A k \in DOMAIN config_file :
        k = config_file[k].repo \o "@" \o config_file[k].version

\* C4 (amended): every key of the registry's tools map equals `<repo>@<s>`,
\* where <repo> is the repo field of the record stored under the key and <s>
\* is either `latest` or a version spec that, with its leading `v`
\* characters removed, equals the record's version field.
C4_KeyIsRepoAtVersionSpec ==
    \A k \in DOMAIN config_file :
        /\ StartsWith(k, config_file[k].repo \o "@")
        /\ \/ KeyVersionPart(k, config_file[k]) = "latest"
           \/ WithoutLeadingVs(KeyVersionPart(k, config_file[k]))
                  = config_file[k].version

C4_Witness ==
    /\ pc = "idle"
    /\ "owner/tool@v1.2.3" \in DOMAIN config_file
    /\ "owner/tool@latest" \in DOMAIN config_file
    /\ config_file["owner/tool@v1.2.3"].version = "1.2.3"
    /\ config_file["owner/tool@latest"].version = "2.0.0"

\* C5: when records exist at o/r@V and at o/r@latest, pinning o/r@V leaves
\* both records with pinned = true and makes the version and executable_path
\* of the o/r@latest record equal to those of the o/r@V record.
C5_PinCopiesToLatest ==
    (/\ last_cmd.op = "pin"
     /\ last_cmd.result = "ok"
     /\ last_cmd.latest_key \in DOMAIN last_cmd.pre_tools)
        => /\ config_file[last_cmd.tool_key].pinned
           /\ config_file[last_cmd.latest_key].pinned
           /\ config_file[last_cmd.tool_key].version
                  = last_cmd.pre_tools[last_cmd.tool_key].version
           /\ config_file[last_cmd.tool_key].executable_path
                  = last_cmd.pre_tools[last_cmd.tool_key].executable_path
           /\ config_file[last_cmd.latest_key].version
                  = config_file[last_cmd.tool_key].version
           /\ config_file[last_cmd.latest_key].executable_path
                  = config_file[last_cmd.tool_key].executable_path

C5_Witness ==
    /\ last_cmd.op = "pin"
    /\ last_cmd.result = "ok"
    /\ last_cmd.tool_key = "owner/tool@v1.2.3"
    /\ last_cmd.latest_key \in DOMAIN last_cmd.pre_tools
    /\ last_cmd.pre_tools[last_cmd.latest_key].version = "2.0.0"
    /\ ~last_cmd.pre_tools[last_cmd.latest_key].pinned
    /\ config_file["owner/tool@latest"].version = "1.2.3"

\* C6: after pin of o/r@V succeeds, every later unpinned lookup of o/r
\* returns a record whose version and executable_path are those of the
\* pinned record, whatever other versions of o/r are in the registry and
\* whatever their last_accessed, until a later install, update or remove.
C6_UnpinnedLookupFollowsPin ==
    (/\ last_cmd.op = "info"
     /\ pin_note.some
     /\ is_pinned(Parsed(pin_note.val.query))
     /\ last_cmd.query = pin_note.val.repo)
        => /\ last_cmd.found.some
           /\ last_cmd.found.val.version = pin_note.val.version
           /\ last_cmd.found.val.executable_path
                  = pin_note.val.executable_path

\* C7: a non-forced install_or_update_tool short-circuits (returns the
\* recorded executable path, nothing staged, final directory and registry
\* unchanged) if and only if a record exists at the resolved registry key,
\* its executable path exists on disk and, when an asset override is given,
\* the cached asset file exists in the version directory.
C7_ShortCircuitIff ==
    (/\ last_cmd.op = "install"
     /\ last_cmd.phase \in {"check", "stage"}
     /\ ~last_cmd.force)
        => ((last_cmd.phase = "check" /\ last_cmd.result = "ok")
              <=> /\ last_cmd.pre_record.some
                  /\ last_cmd.pre_exec_exists
                  /\ last_cmd.asset_override.some => last_cmd.pre_asset_cached)

\* C8: if an install/update fails during Stage, the final versioned
\* directory is exactly as it was before the invocation, so a previously
\* installed version stays intact.
C8_StageFailureKeepsFinalDir ==
    (/\ last_cmd.op = "install"
     /\ last_cmd.phase = "stage"
     /\ last_cmd.result = "error")
        => DirState(fs, last_cmd.version_dir) = last_cmd.pre_dir

C8_Witness ==
    /\ last_cmd.op = "install"
    /\ last_cmd.phase = "stage"
    /\ last_cmd.result = "error"
    /\ last_cmd.force
    /\ last_cmd.pre_dir = Some({"tool-linux-arm64", "tool"})
    /\ fs[last_cmd.version_dir] = {"tool-linux-arm64", "tool"}
    /\ last_cmd.tool_key \in DOMAIN config_file

\* The final versioned directory an executable path lies in:
\* <tools>/<forge>/<repo>__<arch>/<version>.
VersionDirOf(path) ==
    LET parts == split(path, "/")
    IN  Join(Join(Join(parts[1], parts[2]), parts[3]), parts[4])

\* C9: Promote replaces a previous install atomically: in no state the
\* program can be left in, an interrupt or a rename failure between Promote's
\* remove step and its rename step during a forced update included, is the
\* final versioned directory missing while the registry still holds a record
\* whose executable_path lies inside it.
C9_PromoteIsAtomic ==
    pc = "idle" =>
        \A k \in DOMAIN config_file :
            VersionDirOf(config_file[k].executable_path) \in DOMAIN fs

\* The install kind the asset's extension calls for.
KindOfAsset(name) ==
    IF ends_with_rec(name, ".whl") THEN "python-venv"
    ELSE IF \/ ends_with_rec(name, ".tar.gz")
            \/ ends_with_rec(name, ".tgz")
            \/ ends_with_rec(name, ".tar.xz")
            \/ ends_with_rec(name, ".zip")
    THEN "archive"
    ELSE "binary"

\* T without its leading `v`.
WithoutLeadingV(t) ==
    IF Len(t) > 0 /\ SubSeq(t, 1, 1) = "v" THEN Tail(t) ELSE t

\* C10: after a successful install of identifier I resolved to release tag
\* T, the record stored at I's registry key has version T without its
\* leading `v`, pinned equal to I.is_pinned(), and install kind archive for
\* a .tar.gz/.tgz/.tar.xz/.zip asset, python-venv for a .whl asset and binary
\* otherwise.
C10_RecordOfInstall ==
    (/\ last_cmd.op = "install"
     /\ last_cmd.phase = "done"
     /\ last_cmd.result = "ok")
        => /\ config_key(Parsed(last_cmd.query)) \in DOMAIN config_file
           /\ LET rec == config_file[config_key(Parsed(last_cmd.query))]
              IN  /\ rec.version = WithoutLeadingV(last_cmd.actual_version)
                  /\ rec.pinned = is_pinned(Parsed(last_cmd.query))
                  /\ rec.install_type = KindOfAsset(last_cmd.asset)

C10_Witness ==
    /\ last_cmd.op = "install"
    /\ last_cmd.phase = "done"
    /\ last_cmd.result = "ok"
    /\ last_cmd.query = "owner/tool@v1.2.3"
    /\ last_cmd.actual_version = "v1.2.3"
    /\ last_cmd.asset = "tool-linux-amd64.tar.gz"
    /\ config_file["owner/tool@v1.2.3"].version = "1.2.3"
    /\ config_file["owner/tool@v1.2.3"].pinned
    /\ config_file["owner/tool@v1.2.3"].install_type = "archive"

-----------------------------------------------------------------------------
(* Properties of lookup (checked under Spec, on the lookups of `info`).     *)

\* The records of the registry file, and those of the repository o/r.
Records == {config_file[k] : k \in DOMAIN config_file}
RecordsOf(repo) == {r \in Records : lower_rec(r.repo) = lower_rec(repo)}

\* The version spec of a lookup query (the part after `@`), without a
\* leading `v`, and the number of its dot-separated components.
SpecOf(q) == WithoutLeadingV(SubSeq(q, find_char(q, "@") + 1, Len(q)))
RepoOf(q) ==
    IF find_char(q, "@") = 0 THEN q ELSE SubSeq(q, 1, find_char(q, "@") - 1)
Components(v) == Len(split(v, "."))

\* A pinned lookup (a query `o/r@V`) that found no record at its own key.
PinnedMiss ==
    /\ last_cmd.op = "info"
    /\ find_char(last_cmd.query, "@") > 0
    /\ last_cmd.query \notin DOMAIN config_file

\* C12: for a pinned query with an under-specified version (o/r@1.2) and no
\* record at its key, find returns an installed record of o/r whose version
\* matches the request (1.2.x), the highest of them; for a fully specified
\* 3-component version it returns only a record of exactly that version.
C12_PartialVersionLookup ==
    PinnedMiss =>
        LET v == SpecOf(last_cmd.query)
            fits == {r \in RecordsOf(RepoOf(last_cmd.query)) :
                        IF Components(v) >= 3 THEN r.version = v
                        ELSE StartsWith(r.version, v \o ".")}
        IN  /\ last_cmd.found.some => last_cmd.found.val \in fits
            /\ fits # {} => last_cmd.found.some
            /\ last_cmd.found.some =>
                   \A r \in fits : ~version_less(last_cmd.found.val, r)

\* The name a query asks for: the part after the last `/`.
NameOf(q) == SubSeq(q, rfind_char(q, "/") + 1, Len(q))

\* The records an unpinned query matches: by repo, by tool name, or by the
\* name of the executable.
MatchedBy(q) ==
    {r \in Records :
        \/ lower_rec(r.repo) = lower_rec(q)
        \/ lower_rec(r.tool_name) = lower_rec(NameOf(q))
        \/ lower_rec(NameOf(r.repo)) = lower_rec(NameOf(q))
        \/ lower_rec(NameOf(r.executable_path)) = lower_rec(NameOf(q))}

\* C13: for an unpinned query, find returns, among all records that match
\* the query by repo, tool name or executable name (any version, pinned or
\* not), one with the most recent last_accessed; it returns nothing only
\* when no record matches.
C13_UnpinnedLookupMostRecent ==
    (last_cmd.op = "info" /\ find_char(last_cmd.query, "@") = 0)
        => /\ last_cmd.found.some <=> MatchedBy(last_cmd.query) # {}
           /\ last_cmd.found.some =>
                 /\ last_cmd.found.val \in MatchedBy(last_cmd.query)
                 /\ \A r \in MatchedBy(last_cmd.query) :
                        r.last_accessed <= last_cmd.found.val.last_accessed

C13_Witness ==
    /\ last_cmd.op = "info"
    /\ last_cmd.query = "tool"
    /\ last_cmd.found.some
    /\ last_cmd.found.val.pinned
    /\ last_cmd.found.val.last_accessed = 2
    /\ \E r \in Records : r.last_accessed = 1 /\ ~r.pinned

\* C14: for a pinned query, if the registry has a record at the query's
\* exact registry key, find returns that record, whatever other records
\* match by repo, tool name or executable name.
C14_ExactKeyFirst ==
    (/\ last_cmd.op = "info"
     /\ find_char(last_cmd.query, "@") > 0
     /\ last_cmd.query \in DOMAIN config_file)
        => last_cmd.found = Some(config_file[last_cmd.query])

C14_Witness ==
    /\ last_cmd.op = "info"
    /\ last_cmd.query = "owner/tool@v1.2.3"
    /\ "owner/tool@v1.2.3" \in DOMAIN config_file
    /\ last_cmd.found = Some(config_file["owner/tool@v1.2.3"])
    /\ "owner/tool@latest" \in DOMAIN config_file
    /\ config_file["owner/tool@latest"].last_accessed
           > config_file["owner/tool@v1.2.3"].last_accessed

-----------------------------------------------------------------------------
(* Properties of `tooler run` (checked under SpecRun).                     *)

\* C11: run with a pinned query o/r@V whose version V is not installed
\* installs V and then executes it; it never executes the record of another
\* installed version of o/r in its place.
C11_RunExecutesRequestedVersion ==
    (/\ last_cmd.op = "run"
     /\ last_cmd.result = "ok"
     /\ find_char(last_cmd.query, "@") > 0
     /\ Components(SpecOf(last_cmd.query)) = 3
     /\ \E i \in 1..published :
            WithoutLeadingV(AllTags[i]) = SpecOf(last_cmd.query))
        => last_cmd.executed.version = SpecOf(last_cmd.query)

\* C15: every successful run of a tool, by whatever query form resolved it,
\* updates last_accessed of the record that was resolved and executed, and
\* persists the registry with that update.
C15_RunStampsExecutedRecord ==
    (last_cmd.op = "run" /\ last_cmd.result = "ok")
        => \E k \in DOMAIN config_file :
              config_file[k] =
                  [last_cmd.executed EXCEPT !.last_accessed = last_cmd.at]

-----------------------------------------------------------------------------
(* The update-check sweep.                                                 *)

SweepDone == last_cmd.op = "sweep"

\* The records the sweep has no business with: the pinned ones and those
\* accessed within the interval.
Exempt(tools, now) ==
    {k \in DOMAIN tools :
        \/ tools[k].pinned
        \/ now - tools[k].last_accessed <= settings.update_check_days}

\* C16: an update-check sweep leaves every pinned record, and every unpinned
\* record accessed within the interval, as it was.
C16_SweepLeavesExemptRecords ==
    SweepDone =>
        \A k \in Exempt(last_cmd.pre, last_cmd.now) :
            /\ k \in DOMAIN last_cmd.swept
            /\ last_cmd.swept[k] = last_cmd.pre[k]

\* C17: after an invocation that ran an update-check sweep, every record the
\* sweep took for stale carries the time of the sweep in the registry file,
\* whether its release was fetched or not and whether its update succeeded
\* or not.
C17_SweptRecordsRefreshed ==
    SweepDone =>
        \A k \in last_cmd.stale :
            /\ k \in DOMAIN config_file
            /\ config_file[k].last_accessed = last_cmd.now

\* The tag get_gh_release_info(repo, "latest") answers with during the sweep.
LatestTag == AllTags[published]

\* C18: a failed fetch or a failed auto-update of one tool does not end the
\* sweep: the sweep returns Ok, every stale record whose release could be
\* fetched is checked (its timestamp is the sweep's), and every auto-update
\* that succeeds is recorded, whatever happened to the other tools.
C18_SweepIsolatesFailures ==
    SweepDone =>
        /\ last_cmd.result = "ok"
        /\ \A k \in last_cmd.fetched :
              /\ k \in DOMAIN last_cmd.swept
              /\ last_cmd.swept[k].last_accessed = last_cmd.now
        /\ settings.auto_update =>
              \A k \in last_cmd.oks :
                 \E key \in DOMAIN last_cmd.swept :
                    /\ last_cmd.swept[key].repo = last_cmd.pre[k].repo
                    /\ last_cmd.swept[key].version
                           = trim_start_matches(LatestTag, "v")
                    /\ last_cmd.swept[key].installed_at = last_cmd.now

\* Two stale records, the release of one of them cannot be fetched.
C18_Witness ==
    /\ SweepDone
    /\ Cardinality(last_cmd.stale) = 2
    /\ Cardinality(last_cmd.fetched) = 1

-----------------------------------------------------------------------------
(* Loading and saving the registry file.                                   *)

ConfigCmdDone == last_cmd.op \in {"config_set", "run"} /\ last_cmd.before.exists

\* C19: loading a registry file that is JSON keeps every tool record and
\* every setting of the file, with each field the file gives, and fills
\* the fields the file lacks with the defaults (`pinned` with false).
C19_LoadKeepsWhatTheFileHas ==
    ConfigCmdDone =>
        /\ \A k \in DOMAIN last_cmd.before.tools :
              /\ k \in DOMAIN last_cmd.parsed.tools
              /\ \A f \in DOMAIN last_cmd.before.tools[k] :
                    last_cmd.parsed.tools[k][f] = last_cmd.before.tools[k][f]
              /\ "pinned" \notin DOMAIN last_cmd.before.tools[k]
                    => last_cmd.parsed.tools[k].pinned = FALSE
        /\ \A f \in DOMAIN DefaultSettings :
              last_cmd.parsed.settings[f] =
                  IF /\ last_cmd.before.settings.some
                     /\ f \in DOMAIN last_cmd.before.settings.val
                  THEN last_cmd.before.settings.val[f]
                  ELSE DefaultSettings[f]

\* C20: a value an environment variable gave to a setting at load time is
\* not written to the registry file: after a command that saves, each of
\* the three settings an override can reach, unless it is the one the
\* command sets, is in the file what the file gave before.
C20_OverridesNotPersisted ==
    (ConfigCmdDone /\ last_cmd.saved) =>
        \A f \in {"update_check_days", "auto_shim", "bin_dir"} :
            f # last_cmd.key =>
                doc.settings.val[f] = last_cmd.parsed.settings[f]

-----------------------------------------------------------------------------
(* The final versioned directory during an install.                        *)

\* The trees a complete staging of some release asset of the tool yields.
CompleteTrees ==
    UNION {{stage(ReleaseAssets(AllTags[t])[i], "tool").files :
                i \in 1..Len(ReleaseAssets(AllTags[t]))} :
           t \in 1..Len(AllTags)}

\* C30: in every state, those an interrupt or a failure at any step of an
\* install leaves included, each final versioned directory that exists holds
\* a complete tree: the previous install's or the newly staged one, never a
\* part of one.
C30_FinalDirNeverPartial ==
    \A d \in DOMAIN fs : fs[d] \in CompleteTrees

-----------------------------------------------------------------------------
(* pin_tool on a missing record.                                           *)

\* C27: pin_tool on a query whose exact registry key has no record returns
\* an error with the registry as it was: the records in memory, the settings
\* and the registry file are those from before the call.
C27_PinMissLeavesRegistry ==
    (last_cmd.op = "pin" /\ last_cmd.result = "error")
        => /\ last_cmd.returned = last_cmd.pre_tools
           /\ settings = last_cmd.pre_settings
           /\ config_file = last_cmd.pre_file

\* The pin of a version that is not installed, while the tool's `latest`
\* record is.
C27_Witness ==
    /\ last_cmd.op = "pin"
    /\ last_cmd.result = "error"
    /\ last_cmd.latest_there
    /\ config_file = last_cmd.pre_file

-----------------------------------------------------------------------------
(* run of a bare tool name.                                                *)

BareName(q) == Parsed(q).ok /\ Parsed(q).author = "unknown"

-----------------------------------------------------------------------------
(* version_matches.                                                        *)

\* What a request is documented to match: by the number of its components
\* when it is numeric, by identity otherwise.
DocumentedMatch(requested, existing) ==
    LET r == WithoutLeadingV(requested)
        e == WithoutLeadingV(existing)
        parts == split(r, ".")
        ev == Version_parse(e)
        numeric == \A i \in 1..Len(parts) : IsNumericIdent(parts[i])
    IN  IF numeric /\ Len(parts) = 1
        THEN ev.ok /\ ev.major = parse_u64(parts[1])
        ELSE IF numeric /\ Len(parts) = 2
        THEN /\ ev.ok
             /\ ev.major = parse_u64(parts[1])
             /\ ev.minor = parse_u64(parts[2])
        ELSE IF numeric /\ Len(parts) = 3
        THEN ev.ok /\ ev = Version_parse(r)
        ELSE r = e

\* C22: version_matches(requested, existing), a leading v aside, is TRUE
\* exactly for: the existing versions of the same major when the request has
\* one component; those of the same major and minor when it has two (1.2
\* matches 1.2.7 and not 1.3.0); the semantically equal version when it has
\* three; the identical tag when the request is not numeric (master does
\* not match main).
C22_VersionMatchesByComponents ==
    (spc = "pure" /\ last_cmd.op = "version_matches" /\ last_cmd.done)
        => last_cmd.result
             = DocumentedMatch(last_cmd.requested, last_cmd.existing)

-----------------------------------------------------------------------------
(* find_highest_version.                                                   *)

\* The semantic version of a record, its leading v aside.
SemverOf(t) == Version_parse(WithoutLeadingV(t.version))

\* C23: find_highest_version over a non-empty candidate set whose versions
\* all parse as semantic versions returns one of the candidates, no other
\* candidate's version is above its version in semantic-version order
\* (numeric: 1.10.0 is above 1.9.0), and whatever the order of the
\* candidates the returned version is that same one; over an empty set it
\* returns nothing.
C23_HighestIsSemverMaximum ==
    (spc = "pure" /\ last_cmd.op = "find_highest_version" /\ last_cmd.done)
        => IF last_cmd.candidates = {} THEN last_cmd.result = None
           ELSE (\A t \in last_cmd.candidates : SemverOf(t).ok)
                   => /\ last_cmd.result.some
                      /\ last_cmd.result.val \in last_cmd.candidates
                      /\ \A u \in last_cmd.candidates :
                            ~Version_lt(SemverOf(last_cmd.result.val),
                                        SemverOf(u))
                      /\ \A r \in find_highest_version(last_cmd.candidates) :
                            SemverOf(r.val) = SemverOf(last_cmd.result.val)

C23_Witness ==
    /\ spc = "pure"
    /\ last_cmd.op = "find_highest_version"
    /\ last_cmd.done
    /\ {t.version : t \in last_cmd.candidates} = {"1.9.0", "1.10.0", "1.5.0"}
    /\ last_cmd.result.some
    /\ last_cmd.result.val.version = "1.10.0"

-----------------------------------------------------------------------------
(* ToolIdentifier::parse and the identifier's methods.                     *)

\* A call of parse that returned an identifier.
Parsed_ok == /\ spc = "pure" /\ last_cmd.op = "parse" /\ last_cmd.done
             /\ last_cmd.id.ok

IsUrlQuery(q) == StartsWith(q, "http://") \/ StartsWith(q, "https://")

\* C24: for every query string without `@` that parses, http:// and
\* https:// URLs included, the identifier's version_spec is `default` and
\* is_pinned() is false.
C24_NoAtMeansDefaultUnpinned ==
    (Parsed_ok /\ ~contains_rec(last_cmd.query, "@"))
        => /\ version_or_default(last_cmd.id) = "default"
           /\ ~is_pinned(last_cmd.id)

\* The query's text before and after its first `@`.
BeforeAt(q) == SubSeq(q, 1, find_char(q, "@") - 1)
AfterAt(q) == SubSeq(q, find_char(q, "@") + 1, Len(q))

\* <author>/<repo>@<v>: not a URL, one `/` and then one `@`.
IsAuthorRepoAtVersion(q) ==
    /\ ~IsUrlQuery(q)
    /\ find_char(q, "@") # 0
    /\ Len(split(BeforeAt(q), "/")) = 2
    /\ ~contains_rec(AfterAt(q), "@")

\* C25: for every query of the form <author>/<repo>@<v> that parses,
\* full_repo() is <author>/<repo> and the registry key is
\* <author>/<repo>@<v>, <v> exactly as written in the query.
C25_KeyIsQueryAsWritten ==
    (Parsed_ok /\ IsAuthorRepoAtVersion(last_cmd.query))
        => /\ full_repo(last_cmd.id) = BeforeAt(last_cmd.query)
           /\ config_key(last_cmd.id) = last_cmd.query

\* v?MAJOR.MINOR.PATCH, the whole of s.
VersionShaped(s) ==
    /\ WithoutLeadingV(s) # ""
    /\ semver_end(WithoutLeadingV(s), 1) = Len(WithoutLeadingV(s))

\* Some substring of s is MAJOR.MINOR.PATCH.
HasVersionShape(s) == \E i \in 1..Len(s) : semver_end(s, i) # 0

\* C26: for a direct-URL query U@V (U an http or https URL, V any version
\* suffix, one starting with `v` included) parse yields the forge Url, url
\* U without the @V suffix and version_spec V; without a suffix the version
\* is a vMAJOR.MINOR.PATCH-shaped substring of the URL, or absent when the
\* URL has none.
C26_UrlVersionSuffix ==
    (Parsed_ok /\ IsUrlQuery(last_cmd.query))
        => /\ last_cmd.id.forge = "url"
           /\ IF contains_rec(last_cmd.query, "@")
              THEN LET at == rfind_char(last_cmd.query, "@")
                   IN  /\ last_cmd.id.url
                            = Some(SubSeq(last_cmd.query, 1, at - 1))
                       /\ last_cmd.id.version
                            = Some(SubSeq(last_cmd.query, at + 1,
                                          Len(last_cmd.query)))
              ELSE /\ last_cmd.id.url = Some(last_cmd.query)
                   /\ IF HasVersionShape(last_cmd.query)
                      THEN /\ last_cmd.id.version.some
                           /\ VersionShaped(last_cmd.id.version.val)
                           /\ contains_rec(last_cmd.query,
                                           last_cmd.id.version.val)
                      ELSE last_cmd.id.version = None

-----------------------------------------------------------------------------
(* recover.                                                                *)

NonEmpty(x) == x # ""

\* The pieces of a directory name between its underscores.
NameParts(name) == SelectSeq(split(name, "_"), NonEmpty)

\* The record's executable lies under the directory.
CameFrom(t, dir) ==
    StartsWith(t.executable_path,
               (IF dir.source = "" THEN "tools/"
                ELSE "tools/" \o dir.source \o "/") \o dir.name \o "/")

\* The directory name answers the query: its repo piece is the query's tool
\* name whatever the case, or its author and repo pieces are the query's
\* full repo; and its architecture piece, when it has one, is arch.
AnswersQuery(name, q, arch) ==
    LET p == NameParts(name)
        repo == IF Len(p) = 1 THEN p[1] ELSE p[2]
    IN  /\ \/ to_lowercase(repo) = to_lowercase(tool_name(parse(q)))
           \/ Len(p) >= 2 /\ p[1] \o "/" \o p[2] = full_repo(parse(q))
        /\ Len(p) = 3 => p[3] = arch

\* C28: recover returns a record only from a directory whose decoded repo
\* equals the query's tool name case-insensitively, or whose author/repo
\* equals the query's full repo, and whose architecture segment, when
\* present, equals the platform's architecture; the query mkb against
\* kubernetes__minikube__<arch> recovers nothing.
C28_RecoverOnlyFromMatchingDir ==
    (spc = "pure" /\ last_cmd.op = "recover" /\ last_cmd.done)
        => /\ last_cmd.result.some
                => \E dir \in last_cmd.tools_root :
                      /\ CameFrom(last_cmd.result.val, dir)
                      /\ AnswersQuery(dir.name, last_cmd.query, system_arch)
           /\ (/\ last_cmd.query = "mkb"
               /\ \A dir \in last_cmd.tools_root :
                     StartsWith(dir.name, "kubernetes__minikube__"))
                => last_cmd.result = None

C28_Witness ==
    /\ spc = "pure"
    /\ last_cmd.op = "recover"
    /\ last_cmd.done
    /\ last_cmd.query = "minikube"
    /\ {dir.name : dir \in last_cmd.tools_root}
          = {"kubernetes__minikube__arm64", "kubernetes__minikube__amd64"}
    /\ system_arch = "arm64"
    /\ last_cmd.result.some
    /\ last_cmd.result.val.executable_path
          = "tools/github/kubernetes__minikube__arm64/v1.31.0/minikube"

-----------------------------------------------------------------------------
(* The phases of install_or_update_tool.                                   *)

\* The moves of an invocation from phase to phase: forward by one, or out
\* of any phase when it ends.
PhaseMoves ==
    {<<"idle", "stage">>, <<"stage", "remove">>, <<"remove", "rename">>,
     <<"rename", "record">>}
    \cup {<<p, "idle">> : p \in {"stage", "remove", "rename", "record"}}

\* C31: an install/update invocation goes through ResolveMetadata and
\* SelectAsset (before staging starts), Stage, Promote (remove, rename) and
\* RecordUpdate in that order, no phase skipped or repeated; the registry is
\* written only in RecordUpdate, so an invocation that fails in an earlier
\* phase leaves the in-memory and the persisted registry as they were.
C31_PhasesInOrder ==
    [][/\ pc' # pc => <<pc, pc'>> \in PhaseMoves
       /\ (pc = "idle" /\ pc' = "stage")
             => \E r \in resolve(Parsed(inv'.query), last_cmd'.asset_override) :
                   /\ r.ok
                   /\ r.asset = inv'.asset
                   /\ r.actual_version = inv'.actual_version
       /\ (/\ last_cmd'.op = "install"
           /\ last_cmd'.result = "ok"
           /\ last_cmd' # last_cmd)
             => \/ pc = "record"
                \/ /\ pc = "idle"
                   /\ last_cmd'.phase = "check"
                   /\ UNCHANGED <<config, config_file, fs>>
       /\ (/\ pc # "idle" \/ (last_cmd'.op = "install" /\ last_cmd' # last_cmd)
           /\ <<config, config_file>>' # <<config, config_file>>)
             => /\ pc = "record"
                /\ pc' = "idle"
                /\ last_cmd'.result = "ok"]_vars

C31_Witness ==
    /\ last_cmd.op = "install"
    /\ last_cmd.result = "error"
    /\ "phase" \in DOMAIN last_cmd
    /\ last_cmd.phase = "rename"
    /\ pc = "idle"
    /\ config # EmptyMap
    /\ config = config_file

-----------------------------------------------------------------------------
(* The matcher's priorities (checked under SpecSelect).                    *)

\* The kind of a published file by its extension: 1 archive, 2 bare
\* binary, 3 package.
KindRank(a) ==
    IF \E e \in {".tar.gz", ".zip", ".tar.xz", ".tgz"} :
          ends_with_rec(lower_rec(a), e) THEN 1
    ELSE IF \E e \in {".apk", ".deb", ".rpm"} :
          ends_with_rec(lower_rec(a), e) THEN 3
    ELSE 2

\* The assets of the list published for the host's OS and architecture.
ForThisPlatform ==
    {a \in Range(assets) :
        PublishedFor(a) = [os |-> HostOsToken, arch |-> system_arch]}

\* C32: when several assets match the platform's OS and architecture,
\* select returns one of them, an archive in preference to a bare binary
\* and a bare binary in preference to a package, whatever the input order;
\* an asset that matches only the OS or only the architecture is never
\* returned.
C32_ArchiveBinaryPackage ==
    spc = "done" =>
        /\ Cardinality(ForThisPlatform) >= 2
              => /\ selected.some
                 /\ selected.val \in ForThisPlatform
                 /\ \A a \in ForThisPlatform :
                       KindRank(selected.val) <= KindRank(a)
        /\ (selected.some /\ ~IsWheel(selected.val))
              => (PublishedFor(selected.val).os = HostOsToken)
                    <=> (PublishedFor(selected.val).arch = system_arch)

\* The assets the three os+arch buckets yield for a platform: those that
\* pass the filter of the priority loop.
Yields ==
    [a \in AssetPool, os \in HostOS, arch \in {"amd64", "arm64", "arm"} |->
        \E p \in DOMAIN priority_order :
            matching_assets(<<a>>, priority_order[p], os, arch) # <<>>]

Yielded == {a \in Range(assets) : Yields[a, system_os, system_arch]}

\* The names of the pool with a checksum, signature or metadata suffix, and
\* its wheels.
NeverAnAsset ==
    {a \in AssetPool :
        \E e \in {".sha256", ".asc", ".sig", ".pem", ".pub", ".md", ".txt",
                  ".pom", ".xml", ".json"} : ends_with_rec(lower_rec(a), e)}

Wheels == {a \in AssetPool : IsWheel(a)}

-----------------------------------------------------------------------------
(* find_executable_in_extracted.                                           *)

\* The files of the tree that are executables on a Unix-like system: all
\* but the shared libraries.
ExecutableFiles ==
    {i \in DOMAIN last_cmd.files :
        \A e \in {".so", ".dll", ".dylib"} :
            ~ends_with_rec(lower_rec(last_cmd.files[i]), e)}

\* The score of a file in the tree of tool-linux-amd64.tar.gz of owner/tool.
ScoreOf(path) ==
    file_score(path, {"tool", "tool.sh", "owner"}, {"tool", "linux", "amd64"},
               "tool")

\* C34: executable discovery returns the highest-scoring executable file of
\* the extracted tree, the first encountered among files of equal score, and
\* returns none (ExecutableNotFound) only when the tree holds no executable
\* file at all: a single executable file is found at whatever depth it lies.
C34_BestExecutableFound ==
    (spc = "pure" /\ last_cmd.op = "find_executable" /\ last_cmd.done)
        => IF ExecutableFiles = {} THEN last_cmd.result = None
           ELSE /\ last_cmd.result.some
                /\ \E i \in ExecutableFiles :
                      /\ last_cmd.files[i] = last_cmd.result.val
                      /\ \A j \in ExecutableFiles :
                            /\ ScoreOf(last_cmd.files[j])
                                  <= ScoreOf(last_cmd.files[i])
                            /\ j < i => ScoreOf(last_cmd.files[j])
                                           < ScoreOf(last_cmd.files[i])

-----------------------------------------------------------------------------
(* Lookup and the order of the registry map (checked under SpecLookup).    *)

\* C35: find is a function of the query and of the set of registry records:
\* for the registry a lookup ran on, every iteration order of the map gives
\* the record that lookup returned, also when several records match a
\* fallback step of a pinned query or tie on last_accessed for an unpinned
\* one.
C35_LookupIgnoresMapOrder ==
    (spc = "registry" /\ last_cmd.op = "info")
        => find_tool_executable(config, last_cmd.query) = {last_cmd.found}

-----------------------------------------------------------------------------
(* remove_tool on its own argument (install.rs lines 727-799).  The       *)
(* command loads the registry file, calls remove_tool and, when it        *)
(* succeeds, the file is written back.  Commands::Remove hands it a       *)
(* registry key (main.rs line 60); the function also takes a query as     *)
(* typed.                                                                  *)

\* What the user typed when the records of the registry were installed.
RemoveInstalled == {"owner/tool", "owner/tool@v1.2.3", "Owner/Tool", "other/app"}

\* The record an install of q leaves, and its versioned directory.
RemoveTag(q) == IF q \in {"owner/tool", "other/app"} THEN "v2.0.0" ELSE "v1.2.3"
RemoveDir(q) == tool_version_dir(Parsed(q), full_repo(Parsed(q)), RemoveTag(q))
RemoveRecord(q) ==
    new_tool_info(Parsed(q), RemoveTag(q), Join(RemoveDir(q), "tool"),
                  "binary", 0)

\* The registry files remove_tool starts from.
RemoveDocs ==
    {[exists |-> TRUE,
      tools |-> [k \in {config_key(Parsed(q)) : q \in qs} |->
                    RemoveRecord(CHOOSE q \in qs : config_key(Parsed(q)) = k)],
      aliases |-> Some(al), settings |-> Some(st)] :
        qs \in SUBSET RemoveInstalled,
        al \in {EmptyMap, [a \in {"t"} |-> "owner/tool"]},
        st \in {DefaultSettings, DocSettings}}

\* The tool_query values: registry keys, queries as typed, the protected
\* name and a string that is no identifier.
RemoveQueries ==
    {config_key(Parsed(q)) : q \in RemoveInstalled} \cup
    {"owner/tool", "OWNER/TOOL", "other/app", "owner/tool@2.0.0",
     "owner/tool:1.2.3", "tooler-shim", ""}

\* remove_tool, lines 727-799: the config and the storage tree it leaves.
remove_tool(cfg, files, tool_query) ==
    IF to_lowercase(tool_query) = "tooler-shim"
    THEN [ok |-> FALSE, error |-> "protected", config |-> cfg, fs |-> files]
    ELSE IF ~parse(tool_query).ok
    THEN [ok |-> FALSE, error |-> "invalid", config |-> cfg, fs |-> files]
    ELSE LET keys == keys_to_remove(cfg.tools, tool_query)
         IN  IF keys = {}
             THEN [ok |-> FALSE, error |-> "not_found", config |-> cfg,
                   fs |-> files]
             ELSE [ok |-> TRUE, error |-> "",
                   config |-> [cfg EXCEPT !.tools = MapDel(@, keys)],
                   fs |-> MapDel(files,
                                 UNION {dirs_removed(files, cfg.tools[k])
                                        : k \in keys})]

InitRemove ==
    /\ raw_os = "linux"
    /\ raw_arch \in RegistryHostArch
    /\ is_musl = FALSE
    /\ assets = <<>>
    /\ selected = None
    /\ spc = "remove"
    /\ doc \in RemoveDocs
    /\ config = parse_config(doc).tools
    /\ config_file = config
    /\ fs = [d \in {RemoveDir(q) : q \in {x \in RemoveInstalled :
                                config_key(Parsed(x)) \in DOMAIN config}}
                 |-> {"tool"}]
    /\ staging = Absent
    /\ pc = "idle"
    /\ inv = NoInv
    /\ clock = 0
    /\ published = Len(AllTags)
    /\ last_cmd = NoCmd
    /\ pin_note = None
    /\ run = NoRun
    /\ settings = parse_config(doc).settings
    /\ env = NoEnv

\* The command: load_tool_configs, remove_tool(tool_query), and the
\* save_tool_configs of line 796 when it gets there.
RemoveTool(tool_query) ==
    /\ spc = "remove"
    /\ \E cfg \in {load_tool_configs(doc, env)} :
       \E r \in {remove_tool(cfg, fs, tool_query)} :
          /\ config' = r.config.tools
          /\ settings' = r.config.settings
          /\ doc' = IF r.ok THEN save_tool_configs(r.config) ELSE doc
          /\ config_file' = parse_config(doc').tools
          /\ fs' = r.fs
          /\ last_cmd' = [op |-> "remove_tool", tool_query |-> tool_query,
                          result |-> IF r.ok THEN "ok" ELSE "error",
                          error |-> r.error, before |-> cfg,
                          after |-> r.config, file_before |-> doc]
    /\ UNCHANGED <<hostVars, selectVars, staging, pc, inv, clock, published,
                   pin_note, run, env>>

NextRemove == \E tool_query \in RemoveQueries : RemoveTool(tool_query)

SpecRemove == InitRemove /\ [][NextRemove]_vars

\* The registry key of each tool_query that is an identifier.
RemoveKey ==
    [q \in RemoveQueries |->
        IF parse(q).ok THEN Some(config_key(parse(q))) ELSE None]

\* The records the query names: the one at its key and, for a query with
\* neither `@` nor `:`, those of the repository it spells.
Named(tools, q) ==
    {k \in DOMAIN tools :
        \/ RemoveKey[q] = Some(k)
        \/ /\ \A i \in 1..Len(q) : Char(q, i) \notin {"@", ":"}
           /\ to_lowercase(tools[k].repo) = to_lowercase(q)}

\* C36: remove_tool removes exactly the records its query names (the record
\* at the query's registry key and, for a query with neither `@` nor `:`,
\* every record whose repo equals the query case-insensitively); every
\* other record, the aliases and the settings are as before; when the query
\* names no record it returns an error, the not-found one unless the query
\* is the protected name or no identifier, and the registry and its file
\* are as before.
C36_RemoveExactlyTheNamed ==
    (spc = "remove" /\ last_cmd.op = "remove_tool") =>
        LET b == last_cmd.before
            a == last_cmd.after
            q == last_cmd.tool_query
            named == Named(b.tools, q)
        IN  /\ a.aliases = b.aliases
            /\ a.settings = b.settings
            /\ DOMAIN a.tools = DOMAIN b.tools \ named
            /\ \A k \in DOMAIN a.tools : a.tools[k] = b.tools[k]
            /\ config = a.tools
            /\ IF named = {}
               THEN /\ last_cmd.result = "error"
                    /\ (q \notin {"tooler-shim", ""}
                            => last_cmd.error = "not_found")
                    /\ a = b
                    /\ doc = last_cmd.file_before
               ELSE /\ last_cmd.result = "ok"
                    /\ parse_config(doc) = a

\* A query as typed took both records of the repository it spells, the one
\* at its key and the pinned one, and left the other repository's record.
C36_Witness ==
    /\ spc = "remove"
    /\ last_cmd.op = "remove_tool"
    /\ last_cmd.tool_query = "owner/tool"
    /\ last_cmd.result = "ok"
    /\ {"owner/tool@latest", "owner/tool@v1.2.3", "other/app@latest"}
           \subseteq DOMAIN last_cmd.before.tools
    /\ "other/app@latest" \in DOMAIN config
    /\ "owner/tool@latest" \notin DOMAIN config
    /\ "owner/tool@v1.2.3" \notin DOMAIN config
    /\ last_cmd.after.aliases # EmptyMap

\* The storage tree as the recovery scan reads it: the tool directories
\* under tools/github with their versioned directories.
StorageTree(files) ==
    {[source |-> "github", name |-> n,
      versions |-> {[name |-> split(d, "/")[4], files |-> files[d]]
                    : d \in {x \in DOMAIN files : split(x, "/")[3] = n}}]
     : n \in {split(d, "/")[3] : d \in DOMAIN files}}

\* C37: when remove_tool succeeds, the versioned directory of each record
\* it removed (a record install_or_update_tool created) is no longer on
\* disk, and the recovery scan for the record's repository finds nothing to
\* put back into the registry.
C37_RemovedToolStaysRemoved ==
    [][(last_cmd'.op = "remove" /\ last_cmd'.result = "ok") =>
          \A k \in DOMAIN config \ DOMAIN config' :
              /\ ~path_exists(fs', config[k].executable_path)
              /\ recover(config[k].repo, StorageTree(fs'), system_arch)
                     = {None}]_vars

\* C38: with an update-check interval of zero or less the sweep of a
\* `tooler run` does nothing: it asks for no release info, re-installs no
\* tool (the storage tree is as before) and leaves the registry in memory
\* and the registry file as they were; the records the command ends with
\* differ from the ones it started with only by the run's own stamp on the
\* record it executes.
C38_NoSweepWithoutInterval ==
    (spc = "registry" /\ last_cmd.op = "sweep"
                      /\ settings.update_check_days <= 0) =>
        /\ last_cmd.stale = {}
        /\ last_cmd.swept = last_cmd.pre
        /\ last_cmd.swept_file = last_cmd.pre_file
        /\ fs = last_cmd.pre_fs
        /\ DOMAIN config = DOMAIN last_cmd.pre
        /\ \A k \in DOMAIN config :
              \/ config[k] = last_cmd.pre[k]
              \/ /\ k = config_key(Parsed(last_cmd.query))
                 /\ config[k] = [last_cmd.pre[k] EXCEPT
                                    !.last_accessed = last_cmd.now]

\* The interval is zero, auto-update is on, and the run finds two unpinned
\* records last used a day or more ago, one of them behind the latest
\* release; both are as they were after the sweep.
C38_Witness ==
    /\ spc = "registry"
    /\ last_cmd.op = "sweep"
    /\ settings.update_check_days = 0
    /\ settings.auto_update
    /\ published = Len(AllTags)
    /\ \E k1 \in DOMAIN last_cmd.pre : \E k2 \in DOMAIN last_cmd.pre \ {k1} :
          /\ ~last_cmd.pre[k1].pinned
          /\ ~last_cmd.pre[k2].pinned
          /\ last_cmd.now - last_cmd.pre[k1].last_accessed > 0
          /\ last_cmd.now - last_cmd.pre[k2].last_accessed > 0
          /\ last_cmd.pre[k1].version # trim_start_matches(AllTags[published], "v")
          /\ last_cmd.swept[k1] = last_cmd.pre[k1]
          /\ last_cmd.swept[k2] = last_cmd.pre[k2]
=============================================================================
